---- MODULE Spec2Model ----
(***************************************************************************)
(* Model of the fact-to-canonical resolution engine of MyUtilsStore         *)
(* (src/2025.12.24/financial_analyzer.py) and of the mapping merge          *)
(* (src/2025.12.24/financial_mapping.py).                                   *)
(*                                                                          *)
(* Encodings.  A text (Element, Label, Tag, a regex literal) is a sequence  *)
(* of tokens; a token is a word or a separator, so "LiabilitiesAndNetAssets"*)
(* is <<"Liabilities","And","Net","Assets">> and "Liabilities and Net       *)
(* Assets" is <<"Liabilities"," ","and"," ","Net"," ","Assets">>.  None and *)
(* the empty text are both <<>> (the code reads texts through               *)
(* str(x or "")).  An optional number or date is <<>> (None / NaN / NaT) or *)
(* a one-element sequence <<v>>.  A date is <<y, m, d>>.  Weights and       *)
(* scores are counted in tenths (weight 3.5 is 35).                         *)
(***************************************************************************)
EXTENDS Integers, Sequences, FiniteSets, TLC

VARIABLES
    pc,          \* "idle" (no analyzer) | "load" (fact table being assembled)
                 \* | "ready" (analyzer built) | "failed" (__init__ raised)
                 \* | "returned" (a resolution call has returned its table)
    rawFacts,    \* the facts table handed to FinancialAnalyzer.__init__
    facts,       \* self.facts: the normalized fact table
    rules,       \* self.rules: the CanonicalRule list
    prefer,      \* self.prefer_consolidated
    call,        \* the last resolution call and its arguments
    out,         \* the table returned by the last resolution call
    mbase,       \* merge: the base mapping dictionary
    mhist,       \* merge: the overlays applied so far, oldest first
    mcur         \* merge: the current dictionary: base, then each merge's result

vars == <<pc, rawFacts, facts, rules, prefer, call, out, mbase, mhist, mcur>>

----------------------------------------------------------------------------
(* Bounds *)

MaxFacts == 2
MaxBaseItems == 2
MaxOverlayItems == 2
MaxVersion == 2
MaxPeriods == 2

----------------------------------------------------------------------------
(* Texts *)

\* str.lower() on one token
LowerTok(t) ==
    CASE t = "Net" -> "net"
      [] t = "Sales" -> "sales"
      [] t = "IFRS" -> "ifrs"
      [] t = "Assets" -> "assets"
      [] t = "Liabilities" -> "liabilities"
      [] t = "And" -> "and"
      [] t = "Equity" -> "equity"
      [] t = "Total" -> "total"
      [] t = "Book" -> "book"
      [] t = "Value" -> "value"
      [] t = "Details" -> "details"
      [] t = "Of" -> "of"
      [] t = "Securities" -> "securities"
      [] t = "Debt" -> "debt"
      [] t = "Number" -> "number"
      [] t = "Shares" -> "shares"
      [] t = "Segment" -> "segment"
      [] t = "Other" -> "other"
      [] t = "True" -> "true"
      [] t = "False" -> "false"
      [] t = "Yes" -> "yes"
      [] t = "YES" -> "yes"
      [] t = "None" -> "none"
      [] OTHER -> t

Lower(s) == [i \in 1..Len(s) |-> LowerTok(s[i])]

\* the literal p occurs in s starting at position i
OccursAt(p, s, i) ==
    /\ i >= 1
    /\ i + Len(p) - 1 <= Len(s)
    /\ \A k \in 1..Len(p) : s[i + k - 1] = p[k]

\* Python's `p in s`
Contains(p, s) == \E i \in 1..(Len(s) + 1) : OccursAt(p, s, i)

\* One alternative of a regex: ^?pre(.*post)?$?
ReAlt(pre, wild, post, s, e) == [pre |-> pre, wild |-> wild, post |-> post, s |-> s, e |-> e]
Lit(p) == ReAlt(p, FALSE, <<>>, FALSE, FALSE)

ReSearchAlt(a, v) ==
    LET p == Lower(a.pre)
        q == Lower(a.post)
        w == Lower(v)
    IN  IF ~a.wild
        THEN \E i \in 1..(Len(w) + 1) :
                /\ OccursAt(p, w, i)
                /\ (a.s => i = 1)
                /\ (a.e => i + Len(p) - 1 = Len(w))
        ELSE \E i \in 1..(Len(w) + 1) : \E j \in 1..(Len(w) + 1) :
                /\ OccursAt(p, w, i)
                /\ (a.s => i = 1)
                /\ j >= i + Len(p)
                /\ OccursAt(q, w, j)
                /\ (a.e => j + Len(q) - 1 = Len(w))

\* re.search(regex, v, flags=re.IGNORECASE) is not None; a regex is the
\* sequence of its |-alternatives
ReSearch(regex, v) == \E k \in 1..Len(regex) : ReSearchAlt(regex[k], v)

\* str.strip() at token granularity: leading and trailing blanks go
RECURSIVE StripLeft(_)
StripLeft(s) == IF s # <<>> /\ Head(s) = " " THEN StripLeft(Tail(s)) ELSE s
RECURSIVE StripRight(_)
StripRight(s) ==
    IF s # <<>> /\ s[Len(s)] = " " THEN StripRight(SubSeq(s, 1, Len(s) - 1)) ELSE s
Strip(s) == StripRight(StripLeft(s))

----------------------------------------------------------------------------
(* Dates *)

IsLeap(y) == (y % 4 = 0) /\ ((y % 100 # 0) \/ (y % 400 = 0))

DaysBeforeMonth(y, m) ==
    LET t == <<0, 31, 59, 90, 120, 151, 181, 212, 243, 273, 304, 334>>
    IN  t[m] + (IF m > 2 /\ IsLeap(y) THEN 1 ELSE 0)

\* pd.to_datetime(errors="coerce") as a day ordinal; <<>> is NaT.  An ISO
\* date is <<y, m, d>>; any other text (a one-token tuple) does not parse.
ToDatetime(d) ==
    IF d = <<>> \/ Len(d) # 3 THEN <<>>
    ELSE LET y == d[1] - 1
         IN  << y * 365 + (y \div 4) - (y \div 100) + (y \div 400)
                 + DaysBeforeMonth(d[1], d[2]) + d[3] >>

----------------------------------------------------------------------------
(* The raw fact table *)

None == <<>>

FY23 == [start |-> <<2022, 4, 1>>, end |-> <<2023, 3, 31>>]
FY24 == [start |-> <<2023, 4, 1>>, end |-> <<2024, 3, 31>>]
\* an instant context carries no start date
At(d) == [start |-> None, end |-> d]

\* The text of the column "Period/Setting" is a sequence of tokens: an ISO
\* date is the token <<y, m, d>>, any other piece of text a one-string tuple.
\* Period.as_string
AsString(ptype, period) ==
    IF ptype = "instant" /\ period.end # None
    THEN << <<"Instant:">>, <<" ">>, period.end >>
    ELSE IF ptype = "duration" /\ period.start # None /\ period.end # None
    THEN << period.start, <<" ">>, <<"-">>, <<" ">>, period.end >>
    ELSE IF ptype = "forever" THEN << <<"Forever">> >>
    ELSE << <<"Unknown">> >>

\* One row of the Facts Provider's table (xbrl_parser.py builds the same columns)
RawFact(element, label, ctx, cons, ptype, period, num, cur) ==
    [ Tag |-> <<"jppfs_cor", ":">> \o element,
      Element |-> element,
      Label |-> label,
      Value |-> num,
      ContextID |-> ctx,
      Consolidated |-> cons,
      Standard |-> None,
      period_type |-> ptype,
      period_start |-> period.start,
      period_end |-> period.end,
      numeric_value |-> num,
      currency |-> cur,
      is_text_block |-> FALSE,
      dimensions |-> <<>>,
      PeriodSetting |-> AsString(ptype, period) ]

NetSalesIFRS == <<"Net", "Sales", "IFRS">>
NetSales == <<"Net", "Sales">>
NetSalesLabel == <<"Net", " ", "Sales">>
NetAssets == <<"Net", "Assets">>
LiabilitiesAndNetAssets == <<"Liabilities", "And", "Net", "Assets">>
LiabilitiesAndNetAssetsLabel == <<"Liabilities", " ", "and", " ", "Net", " ", "Assets">>
EquityElement == <<"Equity">>
TotalEquityLabel == <<"Total", " ", "Equity">>
BookValueEquity == <<"Book", "Value", "Details", "Of", "Equity", "Securities">>
BookValueEquityLabel == <<"Book", " ", "Value", " ", "Of", " ", "Equity", " ", "Securities">>
DebtSecurities == <<"Debt", "Securities">>
DebtSecuritiesLabel == <<"Debt", " ", "Securities">>
JPY == <<"JPY">>

\* The rows the fact table is assembled from
FactUniverse ==
    << RawFact(NetSalesIFRS, NetSalesLabel, "ctx1", <<"true">>, "duration", FY24, <<1000>>, JPY),
       RawFact(NetSalesIFRS, NetSalesLabel, "ctx2", <<"False">>, "duration", FY24, <<900>>, JPY),
       RawFact(NetSalesIFRS, NetSalesLabel, "ctx3", <<"true">>, "duration", FY24, <<0 - 1000>>, JPY),
       RawFact(NetSales, NetSalesLabel, "ctx4", <<" ", "YES", " ">>, "duration", FY24, <<800>>, JPY),
       RawFact(NetSalesIFRS, NetSalesLabel, "ctx5", <<"False">>, "duration", FY23, <<700>>, JPY),
       RawFact(NetAssets, LiabilitiesAndNetAssetsLabel, "ctx6", <<"True">>, "instant", At(FY24.end), <<5000>>, JPY),
       RawFact(EquityElement, TotalEquityLabel, "ctx7", <<"None">>, "instant", At(FY24.end), <<2000>>, JPY),
       RawFact(LiabilitiesAndNetAssets, LiabilitiesAndNetAssetsLabel, "ctx8", <<"1">>, "instant", At(FY24.end), <<9000>>, JPY),
       RawFact(NetSalesIFRS, NetSalesLabel, "ctx9", <<"true">>, "instant", At(FY24.end), <<1000>>, JPY),
       RawFact(BookValueEquity, BookValueEquityLabel, "ctx10", <<"true">>, "instant", At(FY24.end), <<30>>, JPY),
       RawFact(BookValueEquity, BookValueEquityLabel, "ctx11", <<"no">>, "instant", At(FY24.end), <<70>>, None),
       RawFact(DebtSecurities, DebtSecuritiesLabel, "ctx12", <<"maybe">>, "instant", At(FY23.end), <<40>>, JPY) >>

----------------------------------------------------------------------------
(* FinancialAnalyzer._normalize_facts *)

\* The Consolidated column after astype(str).str.strip().str.lower() and the
\* map: "True" / "False", or "Other" for a value passed through unchanged
NormalizeConsolidated(raw) ==
    LET n == Lower(Strip(raw))
    IN  IF n \in {<<"true">>, <<"1">>, <<"yes">>} THEN "True"
        ELSE IF n \in {<<"false">>, <<"0">>, <<"no">>} THEN "False"
        ELSE "Other"

EndsWith(s, suffix) ==
    Len(s) >= Len(suffix) /\ OccursAt(suffix, s, Len(s) - Len(suffix) + 1)

AllowedDimensionSuffixes ==
    { <<"ConsolidatedOrNonConsolidated", "Axis">>,
      <<"ConsolidatedOrSeparate", "Axis">>,
      <<"ConsolidatedOrSeparateFinancialStatements", "Axis">> }

\* _is_allowed_dimension accepting a fact as soon as one axis is whitelisted
IsAllowedDimensionAnyAxis(dims) ==
    /\ dims # <<>>
    /\ \E k \in 1..Len(dims) : \E sfx \in AllowedDimensionSuffixes : EndsWith(dims[k], sfx)

\* dimensions is the sequence of the axis keys of the fact; <<>> is "{}"
IsAllowedDimension(dims) ==
    /\ dims # <<>>
    /\ \A k \in 1..Len(dims) : \E sfx \in AllowedDimensionSuffixes : EndsWith(dims[k], sfx)

Abs(x) == IF x < 0 THEN 0 - x ELSE x

TextBlock == <<"Text", "Block">>

\* One row with its derived columns
\* The text the patterns of the backfill ask for in place of a date: the
\* patterns are raw strings with doubled backslashes, r"\\d{4}-\\d{2}-\\d{2}",
\* so each asks for a backslash followed by the letter d four (two) times.
BackslashDate == <<"\\dddd-\\dd-\\dd">>

\* r"\\s*": a backslash followed by any number of the letter s
IsBackslashS(tok) == tok \in { <<"\\">>, <<"\\s">>, <<"\\ss">> }

\* str.extract of r"(?P<start>\\d{4}-\\d{2}-\\d{2})\\s*-\\s*(?P<end>\\d{4}-\\d{2}-\\d{2})"
ExtractDuration(ps) ==
    IF \E i \in 1..(Len(ps) - 4) :
          /\ ps[i] = BackslashDate
          /\ IsBackslashS(ps[i + 1])
          /\ ps[i + 2] = <<"-">>
          /\ IsBackslashS(ps[i + 3])
          /\ ps[i + 4] = BackslashDate
    THEN [start |-> BackslashDate, end |-> BackslashDate]
    ELSE [start |-> None, end |-> None]

\* str.extract of r"Instant:\\s*(?P<instant>\\d{4}-\\d{2}-\\d{2})"
ExtractInstant(ps) ==
    IF \E i \in 1..(Len(ps) - 2) :
          /\ ps[i] = <<"Instant:">>
          /\ IsBackslashS(ps[i + 1])
          /\ ps[i + 2] = BackslashDate
    THEN BackslashDate
    ELSE None

\* Series.fillna: the value where there is one, else the fill
FillNa(v, fill) == IF v # None THEN v ELSE fill

\* The period backfill of _normalize_facts from the column "Period/Setting"
BackfillPeriod(f) ==
    [f EXCEPT !.period_start = FillNa(f.period_start, ExtractDuration(f.PeriodSetting).start),
              !.period_end = FillNa(FillNa(f.period_end, ExtractDuration(f.PeriodSetting).end),
                                    ExtractInstant(f.PeriodSetting))]

NormalizeRow(raw) ==
    LET f == BackfillPeriod(raw)
        endDt == ToDatetime(f.period_end)
        startDt0 == ToDatetime(f.period_start)
        instantFill == f.period_type = "instant" /\ startDt0 = None /\ endDt # None
        startDt == IF instantFill THEN endDt ELSE startDt0
        num == IF f.numeric_value # None THEN f.numeric_value ELSE f.Value
    IN  [ Tag |-> f.Tag,
          Element |-> f.Element,
          Label |-> f.Label,
          Value |-> f.Value,
          ContextID |-> f.ContextID,
          Consolidated |-> NormalizeConsolidated(f.Consolidated),
          Standard |-> f.Standard,
          period_type |-> f.period_type,
          period_start |-> IF instantFill THEN f.period_end ELSE f.period_start,
          period_end |-> f.period_end,
          numeric_value |-> num,
          currency |-> f.currency,
          is_text_block |-> f.is_text_block,
          period_start_dt |-> startDt,
          period_end_dt |-> endDt,
          duration_days |-> IF startDt # None /\ endDt # None
                            THEN <<endDt[1] - startDt[1]>> ELSE None,
          has_currency |-> f.currency # None,
          abs_numeric |-> IF num # None THEN <<Abs(num[1])>> ELSE None,
          dimension_allowed |-> (f.dimensions = <<>>) \/ IsAllowedDimension(f.dimensions) ]

KeepRow(r) ==
    /\ ~r.is_text_block
    /\ ~EndsWith(r.Element, TextBlock)
    /\ ~EndsWith(r.Tag, TextBlock)
    /\ ~EndsWith(r.Label, TextBlock)
    /\ r.period_end_dt # None

NormalizeFacts(raw) ==
    SelectSeq([i \in 1..Len(raw) |-> NormalizeRow(raw[i])], KeepRow)

----------------------------------------------------------------------------
(* Rules *)

PeriodFilter(prefer_duration, min_duration_days) ==
    [prefer_duration |-> prefer_duration, min_duration_days |-> min_duration_days]

\* A candidate of a mapping dictionary: exact / regex are None when absent
Cand(field, exact, regex, weight) ==
    [field |-> field, exact |-> exact, regex |-> regex, weight |-> weight]

Item(key, statement, period_type, candidates) ==
    [canonical_key |-> key, statement |-> statement, period_type |-> period_type,
     candidates |-> candidates]

\* The Revenue item of default_mapping (the candidates the fact universe can
\* reach).  The label regex is written r"\\b(...)\\b" in the source: a raw
\* string, so the pattern asks for a literal backslash followed by b.
RevenueItem ==
    Item("Revenue", "PL", "duration",
         << Cand("element", NetSalesIFRS, None, 40),
            Cand("element", <<"Revenue">>, None, 30),
            Cand("element", None, <<Lit(<<"Sales", "Revenue", "Net">>), Lit(NetSalesIFRS), Lit(NetSales)>>, 25),
            Cand("label", None, <<Lit(<<"\\", "b", "Net", " ", "Sales", "\\", "b">>)>>, 10) >>)

\* The TotalEquity item of default_mapping
TotalEquityItem ==
    Item("TotalEquity", "BS", "instant",
         << Cand("element", <<"Equity", "IFRS">>, None, 35),
            Cand("element", EquityElement, None, 30),
            Cand("element", None, <<Lit(<<"Net", "Assets", "Summary", "Of", "Business", "Results">>), Lit(NetAssets)>>, 30),
            Cand("element", None, <<ReAlt(EquityElement, FALSE, None, FALSE, TRUE), Lit(<<"Total", "Equity">>)>>, 25),
            Cand("label", None, <<Lit(TotalEquityLabel), Lit(<<"Equity", " ", "Total">>), Lit(<<"Equity", ",", " ", "Total">>)>>, 10) >>)

\* A caller-supplied item that repeats the canonical key Revenue
RevenueAltItem ==
    Item("Revenue", "PL", "duration",
         << Cand("element", None, <<Lit(NetSales)>>, 20) >>)

\* The mapping dictionaries an analyzer is built with: the `mapping` argument
\* of __init__ is used as given
\* A caller-supplied item whose statement is no member of StatementType
UnknownStatementItem ==
    Item("Revenue", "IS", "duration",
         << Cand("element", NetSalesIFRS, None, 40) >>)

AnalyzerMappings ==
    { [version |-> 1, items |-> <<RevenueItem, TotalEquityItem>>],
      [version |-> 1, items |-> <<RevenueItem, RevenueAltItem, TotalEquityItem>>],
      [version |-> 1, items |-> <<TotalEquityItem, UnknownStatementItem>>] }

\* The members of the StatementType enumeration
StatementTypes == {"PL", "BS", "CF", "PORTFOLIO", "OTHER"}

\* _rules_from_mapping that leaves out the items StatementType rejects
RulesFromMappingDropUnknown(mapping) ==
    LET items == SelectSeq(mapping.items, LAMBDA it : it.statement \in StatementTypes)
    IN  [ raised |-> FALSE,
          rules |-> [i \in 1..Len(items) |->
                       [ canonical_key |-> items[i].canonical_key,
                         statement |-> items[i].statement,
                         period_type |-> items[i].period_type,
                         candidates |-> items[i].candidates ]] ]

\* FinancialAnalyzer._rules_from_mapping: StatementType(value) raises
\* ValueError on a value outside the enumeration, and the conversion with it
RulesFromMapping(mapping) ==
    IF \E i \in 1..Len(mapping.items) : mapping.items[i].statement \notin StatementTypes
    THEN [raised |-> TRUE, rules |-> <<>>]
    ELSE [ raised |-> FALSE,
           rules |-> [i \in 1..Len(mapping.items) |->
                        [ canonical_key |-> mapping.items[i].canonical_key,
                          statement |-> mapping.items[i].statement,
                          period_type |-> mapping.items[i].period_type,
                          candidates |-> mapping.items[i].candidates ]] ]

\* FinancialAnalyzer._portfolio_rules
PortfolioRule(key, candidates, aggregate_mode, exclude_regex) ==
    [portfolio_key |-> key, period_type |-> "instant", candidates |-> candidates,
     aggregate_mode |-> aggregate_mode, exclude_regex |-> exclude_regex]

PortfolioRules ==
    << PortfolioRule("EquitySecurities",
          << Cand("element", None, <<ReAlt(<<"Book", "Value", "Details", "Of">>, TRUE, <<"Equity", "Securities">>, FALSE, FALSE)>>, 10),
             Cand("label", None, <<ReAlt(<<"Book", " ", "Value">>, TRUE, <<"Equity", " ", "Securities">>, FALSE, FALSE)>>, 10) >>,
          "sum",
          << Lit(<<"Number", "Of", "Shares">>), Lit(<<"Name", "Of", "Securities">>),
             Lit(<<"Purposes", "Of", "Holding">>), Lit(<<"Whether", "Issuer">>),
             Lit(<<"Reason", "For", "Increase">>), Lit(<<"Number", "Of", "Names">>) >>),
       PortfolioRule("DebtSecurities",
          << Cand("element", None, <<Lit(DebtSecurities), Lit(<<"Bond", "Securities">>), Lit(<<"Bonds", "Securities">>)>>, 10),
             Cand("label", None, <<Lit(DebtSecuritiesLabel), Lit(<<"Bond", " ", "Investments">>)>>, 10) >>,
          "",
          <<>>),
       PortfolioRule("TotalSecurities",
          << Cand("element", <<"Investment", "Securities">>, None, 12),
             Cand("element", <<"Securities", "Assets", "BNK">>, None, 12),
             Cand("element", None, <<ReAlt(<<"Available", "For", "Sale", "Securities">>, FALSE, None, TRUE, TRUE)>>, 10),
             Cand("element", None, <<ReAlt(<<"Held", "To", "Maturity", "Securities">>, FALSE, None, TRUE, TRUE)>>, 10),
             Cand("element", None, <<ReAlt(<<"Trading", "Securities">>, FALSE, None, TRUE, TRUE)>>, 10),
             Cand("label", None, <<ReAlt(<<"Investment", " ", "Securities">>, FALSE, None, TRUE, TRUE),
                                   ReAlt(<<"Securities">>, FALSE, None, TRUE, TRUE)>>, 10) >>,
          "",
          << Lit(<<"Valuation", "Difference">>), Lit(<<"Gain", "Loss">>),
             Lit(<<"Unrealized">>), Lit(<<"Changes", "In", "Fair", "Value">>) >>),
       PortfolioRule("DerivativeAssets",
          << Cand("element", None, <<Lit(<<"Derivative", "Assets">>), Lit(<<"Derivatives", "Assets">>)>>, 10),
             Cand("element", None, <<Lit(<<"Derivative", "Financial", "Assets">>), Lit(<<"Derivatives", "Financial", "Assets">>)>>, 10),
             Cand("label", None, <<Lit(<<"Derivative", " ", "Assets">>)>>, 10) >>,
          "",
          <<>>),
       PortfolioRule("DerivativeLiabilities",
          << Cand("element", None, <<Lit(<<"Derivative", "Liabilities">>), Lit(<<"Derivatives", "Liabilities">>)>>, 10),
             Cand("element", None, <<Lit(<<"Derivative", "Financial", "Liabilities">>), Lit(<<"Derivatives", "Financial", "Liabilities">>)>>, 10),
             Cand("label", None, <<Lit(<<"Derivative", " ", "Liabilities">>)>>, 10) >>,
          "",
          <<>>) >>

----------------------------------------------------------------------------
(* Matching and scoring *)

\* FinancialAnalyzer._candidate_match
CandidateMatch(row, cand) ==
    IF cand.field \notin {"element", "tag", "label"} THEN FALSE
    ELSE LET value == CASE cand.field = "element" -> row.Element
                        [] cand.field = "tag" -> row.Tag
                        [] cand.field = "label" -> row.Label
         IN  \/ cand.exact # None /\ Lower(value) = Lower(cand.exact)
             \/ cand.regex # None /\ ReSearch(cand.regex, value)

RECURSIVE SumWeightsFirstMatch(_, _)
\* the score loop stopping at the first candidate that matches
SumWeightsFirstMatch(row, cands) ==
    IF cands = <<>> THEN 0
    ELSE IF CandidateMatch(row, Head(cands)) THEN Head(cands).weight
    ELSE SumWeightsFirstMatch(row, Tail(cands))

RECURSIVE SumWeights(_, _)
SumWeights(row, cands) ==
    IF cands = <<>> THEN 0
    ELSE (IF CandidateMatch(row, Head(cands)) THEN Head(cands).weight ELSE 0)
         + SumWeights(row, Tail(cands))

\* The score loop of _match_rule, with the TotalEquity special case
RuleScore(row, rule) ==
    IF /\ rule.canonical_key = "TotalEquity"
       /\ \/ Contains(LiabilitiesAndNetAssets, row.Element)
          \/ Contains(LiabilitiesAndNetAssets, row.Label)
    THEN 0
    ELSE SumWeights(row, rule.candidates)

\* The score loop of _match_portfolio_rule
PortfolioScore(row, rule) == SumWeights(row, rule.candidates)

----------------------------------------------------------------------------
(* Filtering and per-period selection *)

\* FilterFacts without the rule's period_type filter
FilterFactsIgnoringRuleType(table, period_type, period_filter, include_dimensioned) ==
    LET d1 == IF ~include_dimensioned
              THEN SelectSeq(table, LAMBDA r : r.dimension_allowed)
              ELSE table
        d3 == IF /\ period_filter.prefer_duration
                 /\ \E i \in 1..Len(d1) : d1[i].period_type = "duration"
              THEN SelectSeq(d1, LAMBDA r : r.period_type = "duration")
              ELSE d1
    IN  IF period_filter.min_duration_days # 0
        THEN SelectSeq(d3, LAMBDA r :
                \/ r.period_type # "duration"
                \/ r.duration_days = None
                \/ r.duration_days[1] >= period_filter.min_duration_days)
        ELSE d3

\* FilterFacts with the minimum duration applied to rows of every period type
FilterFactsThresholdOnAllRows(table, period_type, period_filter, include_dimensioned) ==
    LET d1 == IF ~include_dimensioned
              THEN SelectSeq(table, LAMBDA r : r.dimension_allowed)
              ELSE table
        d2 == IF period_type # ""
              THEN SelectSeq(d1, LAMBDA r : r.period_type = period_type)
              ELSE d1
        d3 == IF /\ period_filter.prefer_duration
                 /\ \E i \in 1..Len(d2) : d2[i].period_type = "duration"
              THEN SelectSeq(d2, LAMBDA r : r.period_type = "duration")
              ELSE d2
    IN  IF period_filter.min_duration_days # 0
        THEN SelectSeq(d3, LAMBDA r :
                \/ r.duration_days = None
                \/ r.duration_days[1] >= period_filter.min_duration_days)
        ELSE d3

\* FinancialAnalyzer._filter_facts
FilterFacts(table, period_type, period_filter, include_dimensioned) ==
    LET d1 == IF ~include_dimensioned
              THEN SelectSeq(table, LAMBDA r : r.dimension_allowed)
              ELSE table
        d2 == IF period_type # ""
              THEN SelectSeq(d1, LAMBDA r : r.period_type = period_type)
              ELSE d1
        d3 == IF /\ period_filter.prefer_duration
                 /\ \E i \in 1..Len(d2) : d2[i].period_type = "duration"
              THEN SelectSeq(d2, LAMBDA r : r.period_type = "duration")
              ELSE d2
    IN  IF period_filter.min_duration_days # 0
        THEN SelectSeq(d3, LAMBDA r :
                \/ r.period_type # "duration"
                \/ r.duration_days = None
                \/ r.duration_days[1] >= period_filter.min_duration_days)
        ELSE d3

\* ConsolidatedFilter that leaves an explicit flag to the ranking
ConsolidatedFilterAsPreference(df, consolidated) == df

\* df[df["Consolidated"] == consolidated] when consolidated is not None
ConsolidatedFilter(df, consolidated) ==
    IF consolidated # "None"
    THEN SelectSeq(df, LAMBDA r : r.Consolidated = consolidated)
    ELSE df

\* the preference branch keeping the consolidated rows only, when there are any
PreferConsolidatedAsFilter(df, consolidated, prefer_consolidated) ==
    IF /\ consolidated = "None"
       /\ prefer_consolidated
       /\ \E i \in 1..Len(df) : df[i].Consolidated = "True"
    THEN SelectSeq(df, LAMBDA r : r.Consolidated = "True")
    ELSE df

\* elif self.prefer_consolidated and "Consolidated" in df.columns: pass
PreferConsolidated(df, consolidated, prefer_consolidated) ==
    IF consolidated = "None" /\ prefer_consolidated
    THEN df
    ELSE df

\* SortKey with match_score ranked above the consolidation preference
SortKeyScoreFirst(r) ==
    << r.period_end_dt[1],
       r.match_score,
       IF r.is_preferred_consolidated THEN 1 ELSE 0,
       IF r.has_currency THEN 1 ELSE 0,
       IF r.abs_numeric = None THEN 0 - 1 ELSE r.abs_numeric[1] >>

\* SortKey with the magnitude ranked above the presence of a currency
SortKeyMagnitudeFirst(r) ==
    << r.period_end_dt[1],
       IF r.is_preferred_consolidated THEN 1 ELSE 0,
       r.match_score,
       IF r.abs_numeric = None THEN 0 - 1 ELSE r.abs_numeric[1],
       IF r.has_currency THEN 1 ELSE 0 >>

\* The sort key of sort_values(by=[period_end_dt, is_preferred_consolidated,
\* match_score, has_currency, abs_numeric], ascending=False): NaN sorts last
SortKey(r) ==
    << r.period_end_dt[1],
       IF r.is_preferred_consolidated THEN 1 ELSE 0,
       r.match_score,
       IF r.has_currency THEN 1 ELSE 0,
       IF r.abs_numeric = None THEN 0 - 1 ELSE r.abs_numeric[1] >>

\* a sorts strictly before b
LexGreater(a, b) ==
    \E i \in 1..Len(a) : a[i] > b[i] /\ \A j \in 1..(i - 1) : a[j] = b[j]

\* DataFrame.sort_values on several keys: a stable sort, so rows equal on
\* every key keep their order in the table
RECURSIVE SortValues(_)
SortValues(df) ==
    IF df = <<>> THEN <<>>
    ELSE LET i == CHOOSE i \in 1..Len(df) :
                    /\ \A j \in 1..Len(df) : ~LexGreater(SortKey(df[j]), SortKey(df[i]))
                    /\ \A j \in 1..(i - 1) : LexGreater(SortKey(df[i]), SortKey(df[j]))
         IN  <<df[i]>> \o SortValues(SubSeq(df, 1, i - 1) \o SubSeq(df, i + 1, Len(df)))

DateLess(a, b) == LexGreater(b, a)

\* for _, group in df.groupby("period_end"): best_rows.append(group.iloc[0]);
\* groupby walks the keys in ascending order
RECURSIVE GroupFirst(_, _)
GroupFirst(df, ends) ==
    IF ends = {} THEN <<>>
    ELSE LET e == CHOOSE e \in ends : \A x \in ends : ~DateLess(x, e)
             i == CHOOSE i \in 1..Len(df) :
                    /\ df[i].period_end = e
                    /\ \A j \in 1..(i - 1) : df[j].period_end # e
         IN  <<df[i]>> \o GroupFirst(df, ends \ {e})

PeriodEnds(df) == {df[i].period_end : i \in 1..Len(df)}

\* The columns _match_rule adds to a scored row
Scored(r, score) ==
    r @@ [ match_score |-> score,
           value |-> IF r.numeric_value # None THEN r.numeric_value ELSE r.Value,
           is_preferred_consolidated |-> r.Consolidated = "True" ]

\* PositiveRows with the comparison slipped to >=
PositiveRowsKeepZero(df) == SelectSeq(df, LAMBDA r : r.match_score >= 0)

\* df[df["match_score"] > 0]
PositiveRows(df) == SelectSeq(df, LAMBDA r : r.match_score > 0)

\* FinancialAnalyzer._match_rule
MatchRule(table, rule, period_filter, consolidated, prefer_consolidated) ==
    LET df0 == FilterFacts(table, rule.period_type, period_filter, FALSE)
        df1 == PreferConsolidated(ConsolidatedFilter(df0, consolidated),
                                  consolidated, prefer_consolidated)
        df2 == [i \in 1..Len(df1) |-> Scored(df1[i], RuleScore(df1[i], rule))]
        df3 == PositiveRows(df2)
        df4 == SortValues(df3)
    IN  GroupFirst(df4, PeriodEnds(df4))

\* The long-form row resolve_canonical_long builds from a matched row
LongRow(rule, row) ==
    [ canonical_key |-> rule.canonical_key,
      statement |-> rule.statement,
      period_end |-> row.period_end,
      period_start |-> row.period_start,
      period_type |-> row.period_type,
      value |-> row.value,
      currency |-> row.currency,
      consolidated |-> row.Consolidated,
      standard |-> row.Standard,
      tag |-> row.Tag,
      element |-> row.Element,
      label |-> row.Label,
      context_id |-> row.ContextID,
      match_score |-> row.match_score ]

RECURSIVE Concat(_)
Concat(ss) == IF ss = <<>> THEN <<>> ELSE Head(ss) \o Concat(Tail(ss))

RECURSIVE ConsumeRules(_, _, _, _)
\* the rules resolved in turn, each taking its selected facts out of the table
ConsumeRules(table, target, period_filter, consolidated) ==
    IF target = <<>> THEN <<>>
    ELSE LET matched == MatchRule(table, Head(target), period_filter, consolidated, prefer)
             rest == SelectSeq(table, LAMBDA f :
                        \A i \in 1..Len(matched) : matched[i].ContextID # f.ContextID)
         IN  [i \in 1..Len(matched) |-> LongRow(Head(target), matched[i])]
                \o ConsumeRules(rest, Tail(target), period_filter, consolidated)

\* resolve_canonical_long with a selection that consumes the facts it picks
ResolveCanonicalLongConsuming(table, ruleList, statement, period_filter, consolidated) ==
    ConsumeRules(table, SelectSeq(ruleList, LAMBDA r : r.statement = statement),
                 period_filter, consolidated)

\* FinancialAnalyzer.resolve_canonical_long
ResolveCanonicalLongWith(table, ruleList, statement, period_filter, consolidated, prefer_consolidated) ==
    LET target == SelectSeq(ruleList, LAMBDA r : r.statement = statement)
    IN  Concat([k \in 1..Len(target) |->
            LET matched == MatchRule(table, target[k], period_filter, consolidated,
                                     prefer_consolidated)
            IN  [i \in 1..Len(matched) |-> LongRow(target[k], matched[i])]])

\* resolve_canonical_long of the analyzer: self.prefer_consolidated is read
ResolveCanonicalLong(table, ruleList, statement, period_filter, consolidated) ==
    ResolveCanonicalLongWith(table, ruleList, statement, period_filter, consolidated, prefer)

\* pd.DataFrame(rows) on a list of row dictionaries: the columns are the
\* keys of the dictionaries, so an empty list gives a table without columns
DataFrameColumns(rows) == IF rows = <<>> THEN {} ELSE DOMAIN rows[1]

----------------------------------------------------------------------------
(* Portfolio extraction *)

RECURSIVE SumValues(_)
\* Series.sum(skipna=True)
SumValues(df) ==
    IF df = <<>> THEN 0
    ELSE (IF Head(df).value = None THEN 0 ELSE Head(df).value[1]) + SumValues(Tail(df))

\* SumGroup without the restriction to the consolidated rows of the group
SumGroupAllRows(group) ==
    LET total == SumValues(group)
    IN  IF total = 0 THEN <<>>
        ELSE << SortValues([i \in 1..Len(group) |->
                    [group[i] EXCEPT !.value = <<total>>, !.numeric_value = <<total>>]])[1] >>

\* One period group of the aggregate_mode == "sum" branch: <<>> when the
\* group is skipped, else the representative row carrying the total
SumGroup(group) ==
    LET g == IF \E i \in 1..Len(group) : group[i].Consolidated = "True"
             THEN SelectSeq(group, LAMBDA r : r.Consolidated = "True")
             ELSE group
        total == SumValues(g)
    IN  IF total = 0 THEN <<>>
        ELSE << SortValues([i \in 1..Len(g) |->
                    [g[i] EXCEPT !.value = <<total>>, !.numeric_value = <<total>>]])[1] >>

RECURSIVE SumGroups(_, _)
SumGroups(df, ends) ==
    IF ends = {} THEN <<>>
    ELSE LET e == CHOOSE e \in ends : \A x \in ends : ~DateLess(x, e)
         IN  SumGroup(SelectSeq(df, LAMBDA r : r.period_end = e)) \o SumGroups(df, ends \ {e})

\* FinancialAnalyzer._match_portfolio_rule
MatchPortfolioRule(table, rule, period_filter, consolidated, prefer_consolidated) ==
    LET df0 == FilterFacts(table, rule.period_type, period_filter, TRUE)
        df1 == IF rule.exclude_regex # <<>>
               THEN SelectSeq(df0, LAMBDA r :
                        ~ReSearch(rule.exclude_regex,
                                  r.Element \o <<" ">> \o r.Label \o <<" ">> \o r.Tag))
               ELSE df0
        df2 == PreferConsolidated(ConsolidatedFilter(df1, consolidated),
                                  consolidated, prefer_consolidated)
        df3 == [i \in 1..Len(df2) |-> Scored(df2[i], PortfolioScore(df2[i], rule))]
        df4 == PositiveRows(df3)
    IN  IF rule.aggregate_mode = "sum"
        THEN SumGroups(df4, PeriodEnds(df4))
        ELSE LET df5 == SortValues(df4) IN GroupFirst(df5, PeriodEnds(df5))

PortfolioRow(rule, row) ==
    [ portfolio_key |-> rule.portfolio_key,
      period_end |-> row.period_end,
      period_start |-> row.period_start,
      period_type |-> row.period_type,
      value |-> row.value,
      currency |-> row.currency,
      consolidated |-> row.Consolidated,
      standard |-> row.Standard,
      tag |-> row.Tag,
      element |-> row.Element,
      label |-> row.Label,
      context_id |-> row.ContextID,
      match_score |-> row.match_score ]

\* FinancialAnalyzer.get_portfolio_positions
GetPortfolioPositionsWith(table, period_filter, consolidated, prefer_consolidated) ==
    Concat([k \in 1..Len(PortfolioRules) |->
        LET matched == MatchPortfolioRule(table, PortfolioRules[k], period_filter, consolidated,
                                          prefer_consolidated)
        IN  [i \in 1..Len(matched) |-> PortfolioRow(PortfolioRules[k], matched[i])]])

\* get_portfolio_positions of the analyzer: self.prefer_consolidated is read
GetPortfolioPositions(table, period_filter, consolidated) ==
    GetPortfolioPositionsWith(table, period_filter, consolidated, prefer)

RECURSIVE SortedEnds(_)
\* the period ends in ascending order (the index of the pivot)
SortedEnds(ends) ==
    IF ends = {} THEN <<>>
    ELSE LET e == CHOOSE e \in ends : \A x \in ends : ~DateLess(x, e)
         IN  <<e>> \o SortedEnds(ends \ {e})

\* long_df.pivot_table(index="period_label", columns="portfolio_key",
\* values="value", aggfunc="first"): [cols |-> the portfolio keys that became
\* columns, rows |-> one row per period label, ascending], a cell being None
\* (NaN) where the long table has no row
PivotPortfolio(long_df) ==
    LET cols == {long_df[i].portfolio_key : i \in 1..Len(long_df)}
        ends == SortedEnds({long_df[i].period_end : i \in 1..Len(long_df)})
        Cell(k, e) ==
            LET hits == SelectSeq(long_df, LAMBDA r : r.portfolio_key = k /\ r.period_end = e)
            IN  IF hits = <<>> THEN None ELSE hits[1].value
    IN  [ cols |-> cols,
          rows |-> [i \in 1..Len(ends) |->
                      [period_label |-> ends[i], values |-> [k \in cols |-> Cell(k, ends[i])]]] ]

\* equity_series.where(total_series.isna() | (equity_series <= total_series),
\* total_series) for one period; a comparison with NaN is False
EquityAdjusted(equity, total) ==
    IF total = None \/ (equity # None /\ equity[1] <= total[1]) THEN equity ELSE total

\* (total_series - equity_adjusted).where(derived_debt > 0, 0) for one period
DerivedDebt(total, equity_adjusted) ==
    IF total # None /\ equity_adjusted # None /\ total[1] - equity_adjusted[1] > 0
    THEN <<total[1] - equity_adjusted[1]>>
    ELSE <<0>>

\* "DebtSecurities" not in wide.columns or wide["DebtSecurities"].isna().all()
DebtAbsent(wide) ==
    \/ "DebtSecurities" \notin wide.cols
    \/ \A i \in 1..Len(wide.rows) : wide.rows[i].values["DebtSecurities"] = None

\* the cell of column k in a row, None when the table has no such column
Col(wide, row, k) == IF k \in wide.cols THEN row.values[k] ELSE None

\* FinancialAnalyzer.get_portfolio_timeseries without series_defs, from the
\* long table of get_portfolio_positions and its pivot
GetPortfolioTimeseries(long_df, wide) ==
    LET hasTotal == "TotalSecurities" \in wide.cols
        hasEquity == "EquitySecurities" \in wide.cols
        hasNet == {"DerivativeAssets", "DerivativeLiabilities"} \subseteq wide.cols
        Adjusted(row) == EquityAdjusted(Col(wide, row, "EquitySecurities"),
                                        Col(wide, row, "TotalSecurities"))
        Debt(row) ==
            IF ~DebtAbsent(wide) THEN row.values["DebtSecurities"]
            ELSE IF hasEquity THEN DerivedDebt(Col(wide, row, "TotalSecurities"), Adjusted(row))
            ELSE Col(wide, row, "TotalSecurities")
        Net(row) ==
            IF row.values["DerivativeAssets"] = None \/ row.values["DerivativeLiabilities"] = None
            THEN None
            ELSE <<row.values["DerivativeAssets"][1] - row.values["DerivativeLiabilities"][1]>>
        cols == wide.cols \cup (IF hasTotal THEN {"DebtSecurities"} ELSE {})
                          \cup (IF hasNet THEN {"DerivativeNet"} ELSE {})
    IN  IF long_df = <<>> THEN [cols |-> {}, rows |-> <<>>]
        ELSE [ cols |-> cols,
               rows |-> [i \in 1..Len(wide.rows) |->
                  LET row == wide.rows[i]
                  IN  [ period_label |-> row.period_label,
                        values |-> [k \in cols |->
                            CASE k = "EquitySecurities" /\ hasTotal -> Adjusted(row)
                              [] k = "DebtSecurities" /\ hasTotal -> Debt(row)
                              [] k = "DerivativeNet" -> Net(row)
                              [] OTHER -> row.values[k]] ]] ]

----------------------------------------------------------------------------
(* The analyzer as a state machine *)

DefaultMinDurationDays == 300

\* CanonicalPeriodFilter() and the filter get_portfolio_positions defaults to
PeriodFilters == {PeriodFilter(TRUE, DefaultMinDurationDays), PeriodFilter(FALSE, 0)}

Statements == {"PL", "BS"}
ConsolidatedArgs == {"None", "True", "False"}

NoCall == [op |-> "none", statement |-> "", period_filter |-> PeriodFilter(FALSE, 0),
           consolidated |-> "None"]

EmptyMapping == [version |-> 1, items |-> <<>>]

InitResolver ==
    /\ pc = "load"
    /\ rawFacts = <<>>
    /\ facts = <<>>
    /\ rules = <<>>
    /\ prefer = TRUE
    /\ call = NoCall
    /\ out = <<>>

InitMergeIdle ==
    /\ mbase = EmptyMapping
    /\ mhist = <<>>
    /\ mcur = EmptyMapping

\* The Facts Provider appends one row to the table (pd.concat in from_csvs)
AddFact(i) ==
    /\ pc = "load"
    /\ Len(rawFacts) < MaxFacts
    /\ rawFacts' = Append(rawFacts, FactUniverse[i])
    /\ UNCHANGED <<pc, facts, rules, prefer, call, out, mbase, mhist, mcur>>

\* FinancialAnalyzer.__init__ with an explicit mapping dictionary; when the
\* conversion to rules raises, the constructor raises and no analyzer exists
Construct(mapping, prefer_consolidated) ==
    /\ pc = "load"
    /\ IF RulesFromMapping(mapping).raised
       THEN /\ pc' = "failed"
            /\ UNCHANGED <<facts, prefer, rules>>
       ELSE /\ pc' = "ready"
            /\ facts' = NormalizeFacts(rawFacts)
            /\ prefer' = prefer_consolidated
            /\ rules' = RulesFromMapping(mapping).rules
    /\ UNCHANGED <<rawFacts, call, out, mbase, mhist, mcur>>

CallResolveCanonicalLong(statement, period_filter, consolidated) ==
    /\ pc = "ready"
    /\ pc' = "returned"
    /\ call' = [op |-> "resolve_canonical_long", statement |-> statement,
                period_filter |-> period_filter, consolidated |-> consolidated]
    /\ out' = ResolveCanonicalLong(facts, rules, statement, period_filter, consolidated)
    /\ UNCHANGED <<rawFacts, facts, rules, prefer, mbase, mhist, mcur>>

CallGetPortfolioPositions(period_filter, consolidated) ==
    /\ pc = "ready"
    /\ pc' = "returned"
    /\ call' = [op |-> "get_portfolio_positions", statement |-> "PORTFOLIO",
                period_filter |-> period_filter, consolidated |-> consolidated]
    /\ out' = GetPortfolioPositions(facts, period_filter, consolidated)
    /\ UNCHANGED <<rawFacts, facts, rules, prefer, mbase, mhist, mcur>>

\* The caller drops the returned table; the analyzer is ready for the next call
Discard ==
    /\ pc = "returned"
    /\ pc' = "ready"
    /\ call' = NoCall
    /\ out' = <<>>
    /\ UNCHANGED <<rawFacts, facts, rules, prefer, mbase, mhist, mcur>>

Init == InitResolver /\ InitMergeIdle

Next ==
    \/ \E i \in 1..Len(FactUniverse) : AddFact(i)
    \/ \E m \in AnalyzerMappings : \E p \in BOOLEAN : Construct(m, p)
    \/ \E st \in Statements : \E pf \in PeriodFilters : \E c \in ConsolidatedArgs :
          CallResolveCanonicalLong(st, pf, c)
    \/ \E pf \in PeriodFilters : \E c \in ConsolidatedArgs :
          CallGetPortfolioPositions(pf, c)
    \/ Discard

Spec == Init /\ [][Next]_vars

----------------------------------------------------------------------------
(* The analyzer over a securities portfolio *)

InvestmentSecurities == <<"Investment", "Securities">>
InvestmentSecuritiesLabel == <<"Investment", " ", "Securities">>

\* Portfolio rows of a filing: book values of equity holdings, the total of
\* investment securities and the debt securities, at two balance-sheet dates
PortfolioFactUniverse ==
    << RawFact(BookValueEquity, BookValueEquityLabel, "pf1", <<"true">>, "instant", At(FY24.end), <<30>>, JPY),
       RawFact(BookValueEquity, BookValueEquityLabel, "pf2", <<"true">>, "instant", At(FY24.end), <<70>>, JPY),
       RawFact(BookValueEquity, BookValueEquityLabel, "pf3", <<"false">>, "instant", At(FY24.end), <<70>>, JPY),
       RawFact(BookValueEquity, BookValueEquityLabel, "pf4", <<"true">>, "instant", At(FY24.end), <<0 - 30>>, JPY),
       RawFact(BookValueEquity, BookValueEquityLabel, "pf5", <<"true">>, "instant", At(FY23.end), <<30>>, JPY),
       RawFact(InvestmentSecurities, InvestmentSecuritiesLabel, "pf6", <<"true">>, "instant", At(FY24.end), <<50>>, JPY),
       RawFact(InvestmentSecurities, InvestmentSecuritiesLabel, "pf7", <<"true">>, "instant", At(FY23.end), <<50>>, JPY),
       RawFact(DebtSecurities, DebtSecuritiesLabel, "pf8", <<"true">>, "instant", At(FY23.end), <<40>>, JPY) >>

AddPortfolioFact(i) ==
    /\ pc = "load"
    /\ Len(rawFacts) < MaxFacts
    /\ rawFacts' = Append(rawFacts, PortfolioFactUniverse[i])
    /\ UNCHANGED <<pc, facts, rules, prefer, call, out, mbase, mhist, mcur>>

CallGetPortfolioTimeseries(period_filter, consolidated) ==
    /\ pc = "ready"
    /\ pc' = "returned"
    /\ call' = [op |-> "get_portfolio_timeseries", statement |-> "PORTFOLIO",
                period_filter |-> period_filter, consolidated |-> consolidated]
    /\ \E long_df \in {GetPortfolioPositions(facts, period_filter, consolidated)} :
         \E wide \in {PivotPortfolio(long_df)} :
            out' = GetPortfolioTimeseries(long_df, wide)
    /\ UNCHANGED <<rawFacts, facts, rules, prefer, mbase, mhist, mcur>>

NextPortfolio ==
    \/ \E i \in 1..Len(PortfolioFactUniverse) : AddPortfolioFact(i)
    \/ \E m \in AnalyzerMappings : \E p \in BOOLEAN : Construct(m, p)
    \/ \E pf \in PeriodFilters : \E c \in ConsolidatedArgs :
          CallGetPortfolioPositions(pf, c)
    \/ \E pf \in PeriodFilters : \E c \in ConsolidatedArgs :
          CallGetPortfolioTimeseries(pf, c)
    \/ Discard

SpecPortfolio == Init /\ [][NextPortfolio]_vars

----------------------------------------------------------------------------
(* The analyzer over competing candidates of one line item *)

\* the fourth quarter of FY24: 2024-01-01 to 2024-03-31, 90 days
Q4FY24 == [start |-> <<2024, 1, 1>>, end |-> <<2024, 3, 31>>]

\* axis keys of the dimensions column
ConsolidatedAxis == <<"jppfs_cor", "_", "ConsolidatedOrNonConsolidated", "Axis">>
SegmentAxis == <<"jpcrp_cor", "_", "OperatingSegments", "Axis">>

\* a fact reported under explicit dimension axes
Dimensioned(f, dims) == [f EXCEPT !.dimensions = dims]

\* Facts of one filing that compete for the same line item: the same concept
\* with and without a currency, with other magnitudes, for a quarter only,
\* for a segment, and an equity balance
SelectionFactUniverse ==
    << RawFact(NetSalesIFRS, NetSalesLabel, "sel1", <<"true">>, "duration", FY24, <<1000>>, JPY),
       RawFact(NetSalesIFRS, NetSalesLabel, "sel2", <<"true">>, "duration", FY24, <<3000>>, None),
       RawFact(NetSales, NetSalesLabel, "sel3", <<"true">>, "duration", FY24, <<2000>>, JPY),
       RawFact(NetSalesIFRS, NetSalesLabel, "sel4", <<"true">>, "duration", FY24, <<500>>, JPY),
       RawFact(NetSalesIFRS, NetSalesLabel, "sel5", <<"true">>, "duration", Q4FY24, <<250>>, JPY),
       RawFact(EquityElement, TotalEquityLabel, "sel6", <<"true">>, "instant", At(FY24.end), <<2000>>, JPY),
       Dimensioned(RawFact(NetSalesIFRS, NetSalesLabel, "sel7", <<"true">>, "duration", FY24, <<1500>>, JPY),
                   <<ConsolidatedAxis, SegmentAxis>>),
       Dimensioned(RawFact(NetSalesIFRS, NetSalesLabel, "sel8", <<"false">>, "duration", FY24, <<900>>, JPY),
                   <<ConsolidatedAxis>>),
       Dimensioned(RawFact(BookValueEquity, BookValueEquityLabel, "sel9", <<"true">>, "instant", At(FY24.end), <<30>>, JPY),
                   <<SegmentAxis>>) >>

\* A caller-supplied item without period_type; its second candidate names a
\* field _candidate_match does not know, its third has neither exact nor regex
UntypedEquityItem ==
    Item("NetAssets", "BS", "",
         << Cand("element", EquityElement, None, 30),
            Cand("context", EquityElement, None, 50),
            Cand("element", None, None, 70) >>)

SelectionMappings ==
    { [version |-> 1, items |-> <<RevenueItem, TotalEquityItem, UntypedEquityItem>>],
      [version |-> 1, items |-> <<UntypedEquityItem, RevenueAltItem>>] }

\* the period filters of the calls: the default, none, and the annual
\* threshold without the preference for durations
SelectionPeriodFilters ==
    PeriodFilters \cup {PeriodFilter(FALSE, DefaultMinDurationDays)}

AddSelectionFact(i) ==
    /\ pc = "load"
    /\ Len(rawFacts) < MaxFacts
    /\ rawFacts' = Append(rawFacts, SelectionFactUniverse[i])
    /\ UNCHANGED <<pc, facts, rules, prefer, call, out, mbase, mhist, mcur>>

NextSelection ==
    \/ \E i \in 1..Len(SelectionFactUniverse) : AddSelectionFact(i)
    \/ \E m \in SelectionMappings : \E p \in BOOLEAN : Construct(m, p)
    \/ \E st \in Statements : \E pf \in SelectionPeriodFilters : \E c \in ConsolidatedArgs :
          CallResolveCanonicalLong(st, pf, c)
    \/ \E pf \in SelectionPeriodFilters : \E c \in ConsolidatedArgs :
          CallGetPortfolioPositions(pf, c)
    \/ Discard

SpecSelection == Init /\ [][NextSelection]_vars

----------------------------------------------------------------------------

(* The score loop of _match_rule on one row *)

\* the facts and the items the score is computed for
ScoreFacts ==
    {FactUniverse[i] : i \in 1..Len(FactUniverse)}
        \cup {SelectionFactUniverse[i] : i \in 1..Len(SelectionFactUniverse)}

ScoreItems == {RevenueItem, TotalEquityItem, UntypedEquityItem}

\* a mapping item listing the same candidates in the order p
Reordered(item, p) ==
    [item EXCEPT !.candidates = [i \in 1..Len(item.candidates) |-> item.candidates[p[i]]]]

\* An analyzer built over one fact with a one-item mapping
InitScore ==
    /\ \E raw \in ScoreFacts : \E item \in ScoreItems :
          \E p \in Permutations(1..Len(item.candidates)) :
             /\ rawFacts = <<raw>>
             /\ facts = NormalizeFacts(<<raw>>)
             /\ rules = RulesFromMapping([version |-> 1, items |-> <<Reordered(item, p)>>]).rules
    /\ pc = "ready"
    /\ prefer = TRUE
    /\ call = NoCall
    /\ out = <<>>
    /\ InitMergeIdle

\* One pass of the score loop of _match_rule: the row against the rule
ScoreRow(i, k) ==
    /\ pc = "ready"
    /\ pc' = "returned"
    /\ call' = [op |-> "_match_rule.score", row |-> i, rule |-> k]
    /\ out' = RuleScore(facts[i], rules[k])
    /\ UNCHANGED <<rawFacts, facts, rules, prefer, mbase, mhist, mcur>>

NextScore == \E i \in 1..Len(facts) : \E k \in 1..Len(rules) : ScoreRow(i, k)

SpecScore == InitScore /\ [][NextScore]_vars

----------------------------------------------------------------------------

(* The analyzer over a table whose period columns are partly empty *)

\* a row whose period_start and period_end columns are empty
WithoutPeriod(f) == [f EXCEPT !.period_start = None, !.period_end = None]

\* a row with the given text in the column "Period/Setting"
WithPeriodSetting(f, ps) == [f EXCEPT !.PeriodSetting = ps]

\* Rows as from_csvs reads them: the period columns of some are empty and
\* the column "Period/Setting" holds the text Period.as_string wrote, a
\* period other than the one of the period columns, or the text the
\* patterns of the backfill match.
BackfillFactUniverse ==
    << WithoutPeriod(RawFact(NetSalesIFRS, NetSalesLabel, "bf1", <<"true">>, "duration", FY24, <<1000>>, JPY)),
       WithoutPeriod(RawFact(EquityElement, TotalEquityLabel, "bf2", <<"true">>, "instant", At(FY24.end), <<2000>>, JPY)),
       WithPeriodSetting(RawFact(NetSalesIFRS, NetSalesLabel, "bf3", <<"true">>, "duration", FY24, <<1100>>, JPY),
                         AsString("duration", FY23)),
       WithPeriodSetting(RawFact(EquityElement, TotalEquityLabel, "bf4", <<"true">>, "instant", At(FY23.end), <<1900>>, JPY),
                         AsString("instant", At(FY24.end))),
       WithPeriodSetting(WithoutPeriod(RawFact(NetSalesIFRS, NetSalesLabel, "bf5", <<"true">>, "duration", FY24, <<1200>>, JPY)),
                         << BackslashDate, <<"\\">>, <<"-">>, <<"\\">>, BackslashDate >>),
       WithPeriodSetting(WithoutPeriod(RawFact(EquityElement, TotalEquityLabel, "bf6", <<"true">>, "instant", At(FY24.end), <<2100>>, JPY)),
                         << <<"Instant:">>, <<"\\s">>, BackslashDate >>) >>

AddBackfillFact(i) ==
    /\ pc = "load"
    /\ Len(rawFacts) < MaxFacts
    /\ rawFacts' = Append(rawFacts, BackfillFactUniverse[i])
    /\ UNCHANGED <<pc, facts, rules, prefer, call, out, mbase, mhist, mcur>>

NextBackfill ==
    \/ \E i \in 1..Len(BackfillFactUniverse) : AddBackfillFact(i)
    \/ \E m \in AnalyzerMappings : \E p \in BOOLEAN : Construct(m, p)
    \/ \E st \in Statements : \E pf \in PeriodFilters : \E c \in ConsolidatedArgs :
          CallResolveCanonicalLong(st, pf, c)
    \/ Discard

SpecBackfill == Init /\ [][NextBackfill]_vars

----------------------------------------------------------------------------

(* Mapping merge (financial_mapping.py) *)

\* CandidateSpec.from_dict followed by CandidateSpec.to_dict
CandidateRoundTrip(c) ==
    [ field |-> c.field,
      exact |-> c.exact,
      regex |-> c.regex,
      weight |-> IF c.weight = 0 THEN 10 ELSE c.weight ]

\* MappingItem.from_dict followed by MappingItem.to_dict
ItemRoundTrip(item) ==
    [ canonical_key |-> item.canonical_key,
      statement |-> item.statement,
      period_type |-> item.period_type,
      candidates |-> [i \in 1..Len(item.candidates) |-> CandidateRoundTrip(item.candidates[i])] ]

\* A mapping dictionary is a record of the keys it holds (present) and their
\* values; the value of an absent key is never read.
DictKeys == {"version", "items"}

\* the dictionary {}
EmptyDict == [present |-> {}, version |-> 1, items |-> <<>>]

\* bool(d) of a dictionary
Truthy(d) == d.present # {}

\* MappingConfig.from_dict: int(data.get("version", 1) or 1) and
\* data.get("items", [])
FromDict(data) ==
    [ version |-> IF "version" \in data.present /\ data.version # 0 THEN data.version ELSE 1,
      items |-> IF "items" \in data.present
                THEN [i \in 1..Len(data.items) |-> ItemRoundTrip(data.items[i])]
                ELSE <<>> ]

\* MappingConfig.to_dict
ToDict(config) ==
    [present |-> DictKeys, version |-> config.version, items |-> config.items]

\* DictPut that keeps the item already stored under the key
DictPutKeepFirst(d, item) ==
    IF \E i \in 1..Len(d) : d[i].canonical_key = item.canonical_key
    THEN d
    ELSE Append(d, item)

\* DictPut that merges field by field: the stored item's candidates stay
DictPutMergeCandidates(d, item) ==
    IF \E i \in 1..Len(d) : d[i].canonical_key = item.canonical_key
    THEN LET i == CHOOSE i \in 1..Len(d) : d[i].canonical_key = item.canonical_key
         IN  [d EXCEPT ![i] = [item EXCEPT !.candidates = d[i].candidates \o item.candidates]]
    ELSE Append(d, item)

\* base_items[item.canonical_key] = item on an insertion-ordered dict, kept
\* as the sequence of its values
DictPut(d, item) ==
    IF \E i \in 1..Len(d) : d[i].canonical_key = item.canonical_key
    THEN LET i == CHOOSE i \in 1..Len(d) : d[i].canonical_key = item.canonical_key
         IN  [d EXCEPT ![i] = item]
    ELSE Append(d, item)

RECURSIVE DictFromItems(_, _)
DictFromItems(d, items) ==
    IF items = <<>> THEN d ELSE DictFromItems(DictPut(d, Head(items)), Tail(items))

\* the loop of merge_over: items with an empty canonical_key are skipped
OverlayPut(d, item) == IF item.canonical_key # "" THEN DictPut(d, item) ELSE d

RECURSIVE DictOverlay(_, _)
DictOverlay(d, items) ==
    IF items = <<>> THEN d ELSE DictOverlay(OverlayPut(d, Head(items)), Tail(items))

\* MappingConfig.merge_over; overlay is None or <<config>>
MergeOver(self, overlay) ==
    IF overlay = None
    THEN [version |-> self.version, items |-> self.items]
    ELSE [version |-> self.version,
          items |-> DictOverlay(DictFromItems(<<>>, self.items), overlay[1].items)]

\* MappingConfig.merge on dictionaries; overlay is None or <<dict>>, and
\* "if overlay" is false for None and for {}
Merge(base, overlay) ==
    ToDict(MergeOver(FromDict(base),
                     IF overlay # None /\ Truthy(overlay[1])
                     THEN <<FromDict(overlay[1])>>
                     ELSE None))

\* An overriding Revenue item: other statement period type, other candidates
RevenueOverrideItem ==
    Item("Revenue", "PL", "",
         << Cand("label", None, <<Lit(NetSalesLabel)>>, 15) >>)

\* An item whose canonical_key is missing
KeylessItem ==
    Item("", "OTHER", "", << Cand("element", <<"Other">>, None, 10) >>)

\* An overriding TotalEquity item
EquityOverrideItem ==
    Item("TotalEquity", "BS", "instant",
         << Cand("element", EquityElement, None, 30) >>)

MergeItemUniverse == <<RevenueAltItem, RevenueOverrideItem, EquityOverrideItem, KeylessItem>>

RECURSIVE SeqsUpTo(_, _)
\* the sequences over S of length at most n
SeqsUpTo(S, n) ==
    IF n = 0 THEN {<<>>}
    ELSE LET shorter == SeqsUpTo(S, n - 1)
         IN  shorter \cup {Append(q, x) : q \in shorter, x \in S}

MergeItems == {MergeItemUniverse[i] : i \in 1..Len(MergeItemUniverse)}

BaseDicts ==
    {EmptyDict} \cup
    { [present |-> DictKeys, version |-> v, items |-> its] :
        v \in {0, 1, MaxVersion}, its \in SeqsUpTo(MergeItems, MaxBaseItems) }

\* An overlay argument: None, {}, or a dictionary of items (merge_over never
\* reads the overlay's version)
Overlays ==
    {None, <<EmptyDict>>} \cup
    { <<[present |-> DictKeys, version |-> 1, items |-> its]>> :
        its \in SeqsUpTo(MergeItems, MaxOverlayItems) }

\* resolve_mapping layers two merges: standard override, then company override
MergeLayers == 2

InitResolverIdle ==
    /\ pc = "idle"
    /\ rawFacts = <<>>
    /\ facts = <<>>
    /\ rules = <<>>
    /\ prefer = TRUE
    /\ call = NoCall
    /\ out = <<>>

InitMerge ==
    /\ InitResolverIdle
    /\ mbase \in BaseDicts
    /\ mhist = <<>>
    /\ mcur = mbase

\* merged = merge(current, overlay)
CallMerge(overlay) ==
    /\ Len(mhist) < MergeLayers
    /\ mhist' = Append(mhist, overlay)
    /\ mcur' = Merge(mcur, overlay)
    /\ UNCHANGED <<mbase, pc, rawFacts, facts, rules, prefer, call, out>>

NextMerge == \E ov \in Overlays : CallMerge(ov)

SpecMerge == InitMerge /\ [][NextMerge]_vars

----------------------------------------------------------------------------
(* Mapping resolution (columuns_definition_config.py) *)

\* str.upper() on one token
UpperTok(t) ==
    CASE t = "ifrs" -> "IFRS"
      [] t = "jgaap" -> "JGAAP"
      [] t = "usgaap" -> "USGAAP"
      [] t = "Japan" -> "JAPAN"
      [] t = "japan" -> "JAPAN"
      [] t = "gaap" -> "GAAP"
      [] t = "default" -> "DEFAULT"
      [] t = "sec" -> "SEC"
      [] OTHER -> t

Upper(s) == [i \in 1..Len(s) |-> UpperTok(s[i])]

\* str.lower() on one token of a company name
LowerCompanyTok(t) ==
    CASE t = "MUFG" -> "mufg"
      [] t = "Toyota" -> "toyota"
      [] t = "Honda" -> "honda"
      [] OTHER -> t

\* A declarative override item; of its candidate lists the exact element
\* names are kept (an element name is one token)
MappingItemSpec(canonical_key, statement, period_type, element_exact) ==
    [canonical_key |-> canonical_key, statement |-> statement,
     period_type |-> period_type, element_exact |-> element_exact]

\* _append_exact("element", values, 4.0): weights 4.0, 3.9, ... in tenths
AppendExact(values, base_weight) ==
    [idx \in 1..Len(values) |->
        Cand("element", <<values[idx]>>, None, base_weight - (idx - 1))]

\* build_mapping_override
BuildMappingOverride(specs) ==
    [ present |-> {"version", "items"},
      version |-> 1,
      items |-> [i \in 1..Len(specs) |->
                    Item(specs[i].canonical_key, specs[i].statement, specs[i].period_type,
                         AppendExact(specs[i].element_exact, 40))] ]

IfrsOverrides ==
    BuildMappingOverride(<<
       MappingItemSpec("Revenue", "PL", "duration",
           << "RevenueIFRSSummaryOfBusinessResults", "RevenueIFRS", "NetSalesIFRS", "SalesRevenuesIFRS", "TotalNetRevenuesIFRS", "OperatingRevenuesIFRSKeyFinancialData", "OperatingRevenueFromExternalCustomersIFRS", "NetSalesSummaryOfBusinessResults" >>),
       MappingItemSpec("OperatingIncome", "PL", "duration",
           << "OperatingProfitLossIFRSSummaryOfBusinessResults", "OperatingProfitLossIFRS", "OperatingIncome", "OperatingProfit" >>),
       MappingItemSpec("PretaxIncome", "PL", "duration",
           << "ProfitLossBeforeTaxIFRSSummaryOfBusinessResults", "ProfitLossBeforeTaxIFRS", "IncomeBeforeIncomeTaxes", "IncomeBeforeIncomeTaxesIFRS" >>),
       MappingItemSpec("NetIncome", "PL", "duration",
           << "ProfitLossAttributableToOwnersOfParentIFRSSummaryOfBusinessResults", "ProfitLossAttributableToOwnersOfParentIFRS", "ProfitLossIFRS", "ProfitLoss" >>) >>)

JgaapOverrides ==
    BuildMappingOverride(<<
       MappingItemSpec("Revenue", "PL", "duration",
           << "NetSalesSummaryOfBusinessResults", "NetSales", "OperatingRevenueSummaryOfBusinessResults" >>),
       MappingItemSpec("OperatingIncome", "PL", "duration",
           << "OperatingIncomeSummaryOfBusinessResults", "OperatingIncome", "OperatingProfit" >>),
       MappingItemSpec("PretaxIncome", "PL", "duration",
           << "ProfitLossBeforeTaxSummaryOfBusinessResults", "ProfitLossBeforeTax", "IncomeBeforeIncomeTaxes" >>),
       MappingItemSpec("NetIncome", "PL", "duration",
           << "ProfitLossAttributableToOwnersOfParentSummaryOfBusinessResults", "ProfitLossAttributableToOwnersOfParent", "NetIncomeLossSummaryOfBusinessResults", "ProfitLoss" >>) >>)

UsgaapOverrides ==
    BuildMappingOverride(<<
       MappingItemSpec("Revenue", "PL", "duration",
           << "RevenuesUSGAAPSummaryOfBusinessResults", "SalesRevenueNet" >>),
       MappingItemSpec("OperatingIncome", "PL", "duration",
           << "OperatingIncomeSummaryOfBusinessResults", "OperatingIncome", "OperatingProfit" >>),
       MappingItemSpec("PretaxIncome", "PL", "duration",
           << "IncomeBeforeIncomeTaxesUSGAAPSummaryOfBusinessResults", "IncomeBeforeIncomeTaxes" >>),
       MappingItemSpec("NetIncome", "PL", "duration",
           << "NetIncomeLossAttributableToOwnersOfParentUSGAAPSummaryOfBusinessResults", "NetIncomeLossSummaryOfBusinessResults", "NetIncomeLoss", "NetIncome" >>) >>)

MufgOverrides ==
    BuildMappingOverride(<<
       MappingItemSpec("Revenue", "PL", "duration",
           << "OrdinaryIncomeSummaryOfBusinessResults", "OrdinaryIncomeBNK" >>),
       MappingItemSpec("OperatingIncome", "PL", "duration",
           << "OrdinaryIncomeLossSummaryOfBusinessResults", "OrdinaryIncome" >>),
       MappingItemSpec("NetIncome", "PL", "duration",
           << "ProfitLossAttributableToOwnersOfParentSummaryOfBusinessResults", "ProfitLossAttributableToOwnersOfParent", "ProfitLoss" >>) >>)

ToyotaOverrides ==
    BuildMappingOverride(<<
       MappingItemSpec("Revenue", "PL", "duration",
           << "TotalNetRevenuesIFRS", "OperatingRevenuesIFRSKeyFinancialData", "SalesRevenuesIFRS", "RevenuesUSGAAPSummaryOfBusinessResults" >>),
       MappingItemSpec("PretaxIncome", "PL", "duration",
           << "ProfitLossBeforeTaxIFRSSummaryOfBusinessResults", "ProfitLossBeforeTaxIFRS", "ProfitLossBeforeTaxUSGAAPSummaryOfBusinessResults" >>),
       MappingItemSpec("NetIncome", "PL", "duration",
           << "ProfitLossAttributableToOwnersOfParentIFRSSummaryOfBusinessResults", "ProfitLossAttributableToOwnersOfParentIFRS", "NetIncomeLossAttributableToOwnersOfParentUSGAAPSummaryOfBusinessResults", "NetIncomeLossSummaryOfBusinessResults", "ProfitLoss" >>) >>)

HondaOverrides ==
    BuildMappingOverride(<<
       MappingItemSpec("Revenue", "PL", "duration",
           << "RevenueIFRSSummaryOfBusinessResults", "RevenueIFRS", "RevenuesUSGAAPSummaryOfBusinessResults" >>),
       MappingItemSpec("PretaxIncome", "PL", "duration",
           << "ProfitLossBeforeTaxIFRSSummaryOfBusinessResults", "ProfitLossBeforeTaxIFRS", "ProfitLossBeforeTaxUSGAAPSummaryOfBusinessResults" >>),
       MappingItemSpec("NetIncome", "PL", "duration",
           << "ProfitLossAttributableToOwnersOfParentIFRSSummaryOfBusinessResults", "ProfitLossAttributableToOwnersOfParentIFRS", "NetIncomeLossAttributableToOwnersOfParentUSGAAPSummaryOfBusinessResults", "NetIncomeLossSummaryOfBusinessResults", "ProfitLoss" >>) >>)

\* The items of default_mapping whose keys the overrides redefine, each with
\* its first candidate, and TotalEquity, which no override defines
OperatingIncomeItem ==
    Item("OperatingIncome", "PL", "duration",
         << Cand("element", None,
                 <<Lit(<<"OperatingIncomeSummaryOfBusinessResults">>),
                   Lit(<<"OperatingProfitSummaryOfBusinessResults">>)>>, 30) >>)

PretaxIncomeItem ==
    Item("PretaxIncome", "PL", "duration",
         << Cand("element", None,
                 <<Lit(<<"ProfitLossBeforeTax">>), Lit(<<"IncomeBeforeIncomeTaxes">>),
                   Lit(<<"IncomeBeforeTax">>)>>, 25) >>)

NetIncomeItem ==
    Item("NetIncome", "PL", "duration",
         << Cand("element", None,
                 <<Lit(<<"ProfitLossAttributableToOwnersOfParentSummaryOfBusinessResults">>)>>, 25) >>)

\* MappingConfig.default_mapping()
DefaultMapping ==
    [ present |-> {"version", "items"},
      version |-> 1,
      items |-> <<RevenueItem, OperatingIncomeItem, PretaxIncomeItem, NetIncomeItem,
                  TotalEquityItem>> ]

\* A registry is a sequence of <<key, value>> pairs; dict.get(key)
DictGet(registry, key) ==
    IF \E i \in 1..Len(registry) : registry[i][1] = key
    THEN <<registry[CHOOSE i \in 1..Len(registry) : registry[i][1] = key][2]>>
    ELSE None

StandardOverrides ==
    << <<"IFRS", IfrsOverrides>>, <<"JGAAP", JgaapOverrides>>, <<"USGAAP", UsgaapOverrides>> >>

CompanyOverrides ==
    << <<"mufg", << <<"JGAAP", MufgOverrides>> >> >>,
       <<"toyota", << <<"IFRS", ToyotaOverrides>> >> >>,
       <<"honda", << <<"IFRS", HondaOverrides>> >> >> >>

\* _normalize_standard: None, or <<key>>
NormalizeStandard(standard) ==
    IF standard = <<>> THEN None
    ELSE LET normalized == Upper(Strip(standard))
         IN  IF normalized \in {<<"JPGAAP">>, <<"JAPAN", " ", "GAAP">>}
             THEN <<"JGAAP">>
             ELSE normalized

\* _normalize_company
NormalizeCompany(company_name) ==
    IF company_name = <<>> THEN None
    ELSE LET s == Strip(company_name)
         IN  [i \in 1..Len(s) |-> LowerCompanyTok(s[i])]

\* The registries are keyed by one-token texts
AsKey(text) == IF Len(text) = 1 THEN text[1] ELSE ""

\* get_standard_override: None or <<dict>>
GetStandardOverride(standard) ==
    LET key == NormalizeStandard(standard)
    IN  IF key = <<>> THEN None ELSE DictGet(StandardOverrides, AsKey(key))

\* get_company_override: None or <<dict>>
GetCompanyOverride(company_name, standard) ==
    LET company_key == NormalizeCompany(company_name)
    IN  IF company_key = <<>> THEN None
        ELSE LET std == NormalizeStandard(standard)
                 std_key == IF std = <<>> THEN "DEFAULT" ELSE AsKey(std)
                 found == DictGet(CompanyOverrides, AsKey(company_key))
                 company_bucket == IF found = None THEN <<>> ELSE found[1]
                 hit == DictGet(company_bucket, std_key)
             IN  IF hit # None /\ Truthy(hit[1]) THEN hit
                 ELSE DictGet(company_bucket, "DEFAULT")

\* resolve_mapping with the company override merged before the standard one
ResolveMappingCompanyFirst(standard, company_name) ==
    Merge(Merge(DefaultMapping, GetCompanyOverride(company_name, standard)),
          GetStandardOverride(standard))

\* resolve_mapping
ResolveMapping(standard, company_name) ==
    Merge(Merge(DefaultMapping, GetStandardOverride(standard)),
          GetCompanyOverride(company_name, standard))

\* The standard labels and company names a caller passes
StandardArgs ==
    { None, <<"IFRS">>, <<"ifrs">>, <<" ", "IFRS", " ">>, <<"JGAAP">>, <<"jgaap">>,
      <<"JPGAAP">>, <<"Japan", " ", "GAAP">>, <<"japan", " ", "gaap">>, <<"USGAAP">>,
      <<"usgaap">>, <<"DEFAULT">>, <<"SEC">> }

CompanyArgs ==
    { None, <<"mufg">>, <<"MUFG">>, <<" ", "mufg">>, <<"toyota">>, <<"Toyota">>,
      <<"honda">>, <<"Honda", " ">>, <<"sony">> }

InitResolveMapping ==
    /\ InitResolverIdle
    /\ InitMergeIdle

\* merged = resolve_mapping(standard, company_name): mhist records the two
\* overlays it layered over the base, mcur the mapping it returned
CallResolveMapping(standard, company_name) ==
    /\ pc = "idle"
    /\ pc' = "returned"
    /\ call' = [op |-> "resolve_mapping", standard |-> standard, company_name |-> company_name]
    /\ mbase' = DefaultMapping
    /\ mhist' = <<GetStandardOverride(standard), GetCompanyOverride(company_name, standard)>>
    /\ mcur' = ResolveMapping(standard, company_name)
    /\ UNCHANGED <<rawFacts, facts, rules, prefer, out>>

NextResolveMapping ==
    \E standard \in StandardArgs, company_name \in CompanyArgs :
        CallResolveMapping(standard, company_name)

SpecResolveMapping == InitResolveMapping /\ [][NextResolveMapping]_vars

----------------------------------------------------------------------------
(* Balance-sheet reconciler (FinancialAnalyzer._reconcile_balance_sheet) *)

\* A wide table is [cols |-> number of period columns, rows |-> sequence of
\* rows]; a row is [canonical_key, label, statement, cells], cells holding
\* one optional number per period column.
WideRow(canonical_key, label, statement, cells) ==
    [canonical_key |-> canonical_key, label |-> label, statement |-> statement,
     cells |-> cells]

\* df[df["canonical_key"] == key]
RowsOf(df, key) == SelectSeq(df.rows, LAMBDA r : r.canonical_key = key)

\* row.iloc[0].get(col) through pd.to_numeric(..., errors="coerce")
NumericCell(rows, col) == rows[1].cells[col]

\* abs(ta - (tl + te)) / abs(ta) >= tolerance, the tolerance in percent
ExceedsToleranceOrEqual(ta, te, tl, tolerance) ==
    ta # 0 /\ Abs(ta - (tl + te)) * 100 >= tolerance * Abs(ta)

\* the comparison without the absolute value of the gap
ExceedsToleranceSigned(ta, te, tl, tolerance) ==
    ta # 0 /\ (ta - (tl + te)) * 100 > tolerance * Abs(ta)

\* ta != 0 and abs(ta - (tl + te)) / abs(ta) > tolerance, the tolerance in
\* percent
ExceedsTolerance(ta, te, tl, tolerance) ==
    ta # 0 /\ Abs(ta - (tl + te)) * 100 > tolerance * Abs(ta)

\* The loop body with a missing equity read as zero
ReconcileCellEquityZero(ta, te, tl, tolerance) ==
    IF ta = None THEN tl
    ELSE LET e == IF te = None THEN 0 ELSE te[1]
         IN  IF tl = None THEN <<ta[1] - e>>
             ELSE IF ExceedsTolerance(ta[1], e, tl[1], tolerance) THEN <<ta[1] - e>>
             ELSE tl

\* The loop body for one period column: the TotalLiabilities cell after it
ReconcileCell(ta, te, tl, tolerance) ==
    IF ta = None \/ te = None THEN tl
    ELSE IF tl = None THEN <<ta[1] - te[1]>>
    ELSE IF ExceedsTolerance(ta[1], te[1], tl[1], tolerance) THEN <<ta[1] - te[1]>>
    ELSE tl

\* Seeding that adds no row
SeedLiabilitiesRowSkipped(df) == df

\* pd.concat of the derived row, its cells seeded with None
SeedLiabilitiesRow(df) ==
    [df EXCEPT !.rows =
        Append(df.rows,
               WideRow("TotalLiabilities", "Total Liabilities (Derived)", "BS",
                       [col \in 1..df.cols |-> None]))]

\* _reconcile_balance_sheet(df_wide, tolerance), the tolerance in percent; the
\* pivot of canonical_wide gives one row per canonical key, so the row the
\* cells are read from is the row they are written to
ReconcileBalanceSheet(df_wide, tolerance) ==
    IF df_wide.rows = <<>> THEN df_wide
    ELSE IF df_wide.cols = 0 THEN df_wide
    ELSE IF RowsOf(df_wide, "TotalAssets") = <<>> \/ RowsOf(df_wide, "TotalEquity") = <<>>
    THEN df_wide
    ELSE LET df == IF RowsOf(df_wide, "TotalLiabilities") = <<>>
                   THEN SeedLiabilitiesRow(df_wide)
                   ELSE df_wide
             assets_row == RowsOf(df_wide, "TotalAssets")
             equity_row == RowsOf(df_wide, "TotalEquity")
             liab_row == RowsOf(df, "TotalLiabilities")
         IN  IF liab_row = <<>> THEN df
             ELSE [df EXCEPT !.rows =
                    [i \in 1..Len(df.rows) |->
                        IF df.rows[i].canonical_key # "TotalLiabilities" THEN df.rows[i]
                        ELSE [df.rows[i] EXCEPT !.cells =
                                [col \in 1..df.cols |->
                                    ReconcileCell(NumericCell(assets_row, col),
                                                  NumericCell(equity_row, col),
                                                  NumericCell(liab_row, col),
                                                  tolerance)]]]]

\* tolerance: float = 0.03, in percent
DefaultTolerance == 3

\* The cell values of the wide tables
AssetsValues == {None, <<0>>, <<100>>, <<0 - 100>>}
EquityValues == {None, <<40>>}
LiabilitiesValues == {None, <<55>>, <<57>>}

\* the sequences over S of length exactly n
RECURSIVE SeqsOfLen(_, _)
SeqsOfLen(S, n) ==
    IF n = 0 THEN {<<>>}
    ELSE {Append(q, x) : q \in SeqsOfLen(S, n - 1), x \in S}

\* the rows a key can have in a table of n period columns: none or one
KeyRows(key, label, values, n) ==
    {<<>>} \cup { <<WideRow(key, label, "BS", cells)>> : cells \in SeqsOfLen(values, n) }

\* The wide BS table canonical_wide hands over when nothing resolved
EmptyWideTable == [cols |-> 0, rows |-> <<>>]

\* A wide BS table of n period columns: one row per canonical key in key
\* order, with a cash row the reconciler never reads
WideTable(n, assets, equity, liabilities) ==
    [ cols |-> n,
      rows |-> <<WideRow("CashAndCashEquivalents", "Cash", "BS", [col \in 1..n |-> <<10>>])>>
               \o assets \o equity \o liabilities ]

InitReconcile ==
    /\ InitResolverIdle
    /\ InitMergeIdle

\* get_bs_data: the wide BS table goes through the reconciler
CallReconcile(df_wide) ==
    /\ pc = "idle"
    /\ pc' = "returned"
    /\ call' = [op |-> "_reconcile_balance_sheet", df_wide |-> df_wide]
    /\ out' = ReconcileBalanceSheet(df_wide, DefaultTolerance)
    /\ UNCHANGED <<rawFacts, facts, rules, prefer, mbase, mhist, mcur>>

NextReconcile ==
    \/ CallReconcile(EmptyWideTable)
    \/ \E n \in 1..MaxPeriods :
         \E a \in KeyRows("TotalAssets", "Total Assets", AssetsValues, n),
            e \in KeyRows("TotalEquity", "Total Equity", EquityValues, n),
            l \in KeyRows("TotalLiabilities", "Total Liabilities", LiabilitiesValues, n) :
               CallReconcile(WideTable(n, a, e, l))

SpecReconcile == InitReconcile /\ [][NextReconcile]_vars

----------------------------------------------------------------------------
(* Properties of resolve_canonical_long and get_portfolio_positions *)

Resolved == pc = "returned" /\ call.op = "resolve_canonical_long"
Positions == pc = "returned" /\ call.op = "get_portfolio_positions"

TargetRules == SelectSeq(rules, LAMBDA r : r.statement = call.statement)

\* The facts rule R can select from in the last call, before scoring
Pool(R) ==
    ConsolidatedFilter(FilterFacts(facts, R.period_type, call.period_filter, FALSE),
                       call.consolidated)

\* The positively scored candidates of rule R for period end e
Candidates(R, e) ==
    {i \in 1..Len(Pool(R)) : Pool(R)[i].period_end = e /\ RuleScore(Pool(R)[i], R) > 0}

\* Output row `row` was produced by rule R from the candidate f
RowFrom(row, R, f) ==
    /\ row.canonical_key = R.canonical_key
    /\ row.statement = R.statement
    /\ row.context_id = f.ContextID
    /\ row.period_end = f.period_end
    /\ row.match_score = RuleScore(f, R)

RowOfRule(row, R) == \E i \in 1..Len(Pool(R)) : RowFrom(row, R, Pool(R)[i])

AllPeriodEnds == {facts[i].period_end : i \in 1..Len(facts)}

\* C1: the table returned by resolve_canonical_long never holds two rows
\* with the same canonical key and the same period end.
C1_OneRowPerKeyAndPeriod ==
    Resolved =>
        \A i \in 1..Len(out) : \A j \in 1..Len(out) :
            (out[i].canonical_key = out[j].canonical_key /\ out[i].period_end = out[j].period_end)
                => i = j

PermuteSeq(s, p) == [i \in 1..Len(s) |-> s[p[i]]]

\* C2: the table returned by resolve_canonical_long is the same for every
\* ordering of the rows of the input fact table.
C2_IndependentOfRowOrder ==
    Resolved =>
        \A p \in Permutations(1..Len(rawFacts)) :
            ResolveCanonicalLong(NormalizeFacts(PermuteSeq(rawFacts, p)), rules,
                                 call.statement, call.period_filter, call.consolidated) = out

\* the text columns of an output row, read as a fact row
AsFact(row) == [Element |-> row.element, Tag |-> row.tag, Label |-> row.label]

\* C3: every row returned by resolve_canonical_long has match_score > 0 and
\* comes from a fact that matches at least one candidate matcher of a rule
\* with the row's canonical key.
C3_ScorePositive ==
    Resolved =>
        \A i \in 1..Len(out) :
            /\ out[i].match_score > 0
            /\ \E k \in 1..Len(TargetRules) :
                  /\ TargetRules[k].canonical_key = out[i].canonical_key
                  /\ \E c \in 1..Len(TargetRules[k].candidates) :
                        CandidateMatch(AsFact(out[i]), TargetRules[k].candidates[c])

\* A call returned rows while a fact that passed a rule's filters scored 0
\* for that rule and was not emitted for it.
C3_Witness ==
    /\ Resolved
    /\ Len(out) >= 1
    /\ \E k \in 1..Len(TargetRules) : \E i \in 1..Len(Pool(TargetRules[k])) :
          /\ RuleScore(Pool(TargetRules[k])[i], TargetRules[k]) = 0
          /\ \A j \in 1..Len(out) : out[j].context_id # Pool(TargetRules[k])[i].ContextID

\* C4: no TotalEquity row returned by resolve_canonical_long(BS) comes from
\* a fact whose label is "Liabilities and Net Assets".
C4_EquityNeverLiabilitiesAndNetAssets ==
    (Resolved /\ call.statement = "BS") =>
        \A i \in 1..Len(out) :
            out[i].canonical_key = "TotalEquity" => out[i].label # LiabilitiesAndNetAssetsLabel

\* C5: with consolidated unspecified, every rule and period end with a
\* positively scored candidate gets exactly one row, taken from those
\* candidates, and that row is a consolidated one whenever a consolidated
\* candidate exists.
C5_ConsolidatedPreferred ==
    (Resolved /\ call.consolidated = "None") =>
        \A k \in 1..Len(TargetRules) : \A e \in AllPeriodEnds :
            LET R == TargetRules[k]
                cands == Candidates(R, e)
                picked == {i \in 1..Len(out) :
                              \E c \in cands : RowFrom(out[i], R, Pool(R)[c])}
            IN  cands # {} =>
                  /\ Cardinality(picked) = 1
                  /\ (\E c \in cands : Pool(R)[c].Consolidated = "True")
                        => \A i \in picked : out[i].consolidated = "True"

\* A consolidated candidate was selected over a non-consolidated candidate
\* of the same rule and period that has the higher match score.
C5_Witness ==
    /\ Resolved
    /\ call.consolidated = "None"
    /\ \E k \in 1..Len(TargetRules) : \E i \in 1..Len(out) :
          LET R == TargetRules[k]
          IN  /\ out[i].consolidated = "True"
              /\ RowOfRule(out[i], R)
              /\ \E c \in Candidates(R, out[i].period_end) :
                    /\ Pool(R)[c].Consolidated # "True"
                    /\ RuleScore(Pool(R)[c], R) > out[i].match_score

\* C6: with consolidated=True (False) every row returned by
\* resolve_canonical_long and by get_portfolio_positions carries the
\* normalized flag True (False).
C6_ExplicitConsolidatedFilters ==
    ((Resolved \/ Positions) /\ call.consolidated # "None") =>
        \A i \in 1..Len(out) : out[i].consolidated = call.consolidated

\* A call with an explicit flag returned rows and left out a period that the
\* same call with consolidated unspecified fills.
C6_Witness ==
    /\ Resolved
    /\ call.consolidated # "None"
    /\ Len(out) >= 1
    /\ Len(ResolveCanonicalLong(facts, rules, call.statement, call.period_filter, "None"))
          > Len(out)

\* C7: a row produced by a rule that specifies a period_type has exactly
\* that period_type (canonical rules and portfolio rules alike).
C7_PeriodTypeRespected ==
    /\ Resolved =>
          \A i \in 1..Len(out) : \A k \in 1..Len(TargetRules) :
              (TargetRules[k].canonical_key = out[i].canonical_key
               /\ TargetRules[k].period_type # "")
                  => out[i].period_type = TargetRules[k].period_type
    /\ Positions =>
          \A i \in 1..Len(out) : \A k \in 1..Len(PortfolioRules) :
              PortfolioRules[k].portfolio_key = out[i].portfolio_key
                  => out[i].period_type = PortfolioRules[k].period_type

\* A duration rule returned a row while the table holds an instant fact that
\* its matchers score positively.
C7_Witness ==
    /\ Resolved
    /\ Len(out) >= 1
    /\ \E k \in 1..Len(TargetRules) : \E i \in 1..Len(facts) :
          /\ TargetRules[k].period_type = "duration"
          /\ facts[i].period_type = "instant"
          /\ RuleScore(facts[i], TargetRules[k]) > 0

----------------------------------------------------------------------------
(* Properties of the mapping merge *)

ItemsWithKey(items, k) == SelectSeq(items, LAMBDA it : it.canonical_key = k)
Keys(items) == {items[i].canonical_key : i \in 1..Len(items)}
ItemSet(items) == {items[i] : i \in 1..Len(items)}
LastOf(items) == items[Len(items)]

\* C8: merge(base, None) returns a dictionary equal to base: same version,
\* same items in the same order.
C8_MergeNoneReturnsBase ==
    (Len(mhist) = 1 /\ mhist[1] = None) => mcur = mbase

\* C9 as stated: for every canonical key k that overlays A and B both hold,
\* merge(merge(base, A), B) has one item for k, it is an item of B, and it
\* is the item merge(base, B) has for k.
C9_LastOverlayWinsAnyKey ==
    (Len(mhist) = MergeLayers /\ mhist[1] # None /\ mhist[2] # None) =>
        \A k \in Keys(mhist[1][1].items) \cap Keys(mhist[2][1].items) :
            LET got == ItemsWithKey(mcur.items, k)
            IN  /\ Len(got) = 1
                /\ got[1] \in ItemSet(ItemsWithKey(mhist[2][1].items, k))
                /\ got = ItemsWithKey(Merge(mbase, mhist[2]).items, k)

\* C9 (amended): for every non-empty canonical key k that overlays A and B
\* both hold, merge(merge(base, A), B) has one item for k, it is B's item
\* (the last one B lists under k), and it is the item merge(base, B) has
\* for k.
C9_LastOverlayWins ==
    (Len(mhist) = MergeLayers /\ mhist[1] # None /\ mhist[2] # None) =>
        \A k \in (Keys(mhist[1][1].items) \cap Keys(mhist[2][1].items)) \ {""} :
            LET got == ItemsWithKey(mcur.items, k)
            IN  /\ got = <<LastOf(ItemsWithKey(mhist[2][1].items, k))>>
                /\ got = ItemsWithKey(Merge(mbase, mhist[2]).items, k)

\* A and B hold different items under a key that base holds too, B was
\* merged last and changed the item the first merge had left.
C9_Witness ==
    /\ Len(mhist) = MergeLayers
    /\ mhist[1] # None
    /\ mhist[2] # None
    /\ \E k \in (Keys(mhist[1][1].items) \cap Keys(mhist[2][1].items)) \ {""} :
          /\ LastOf(ItemsWithKey(mhist[1][1].items, k)) # LastOf(ItemsWithKey(mhist[2][1].items, k))
          /\ k \in Keys(mbase.items)
          /\ ItemsWithKey(mcur.items, k) # ItemsWithKey(Merge(mbase, mhist[1]).items, k)

\* C10 as stated: merge(base, overlay) holds, for each key of the overlay,
\* exactly one item and it is the overlay's; for each key only in base, exactly
\* one item and it is a base item; and every overlay item is in the result.
C10_OverlayReplacesAndSurvives ==
    (Len(mhist) = 1 /\ mhist[1] # None) =>
        LET ov == mhist[1][1].items
        IN  /\ \A k \in Keys(ov) :
                  /\ Len(ItemsWithKey(mcur.items, k)) = 1
                  /\ ItemsWithKey(mcur.items, k)[1] \in ItemSet(ItemsWithKey(ov, k))
            /\ \A k \in Keys(mbase.items) \ Keys(ov) :
                  /\ Len(ItemsWithKey(mcur.items, k)) = 1
                  /\ ItemsWithKey(mcur.items, k)[1] \in ItemSet(ItemsWithKey(mbase.items, k))
            /\ \A i \in 1..Len(ov) : ov[i] \in ItemSet(mcur.items)

\* C10 (amended): for an overlay that is a non-empty dictionary,
\* merge(base, overlay) holds, for each non-empty key of the overlay, exactly
\* the last item the overlay lists under it, unchanged; for each other key of
\* base, exactly the last item base lists under it; and nothing else: overlay
\* items with an empty canonical_key are dropped.
C10_OverlayReplacesByKey ==
    (Len(mhist) = 1 /\ mhist[1] # None /\ Truthy(mhist[1][1])) =>
        LET ov == mhist[1][1].items
            ovKeys == Keys(ov) \ {""}
        IN  /\ \A k \in ovKeys :
                  ItemsWithKey(mcur.items, k) = <<LastOf(ItemsWithKey(ov, k))>>
            /\ \A k \in Keys(mbase.items) \ ovKeys :
                  ItemsWithKey(mcur.items, k) = <<LastOf(ItemsWithKey(mbase.items, k))>>
            /\ Keys(mcur.items) = Keys(mbase.items) \cup ovKeys

\* One merge replaced a base item by a different overlay item, added an
\* overlay item whose key base lacks, and kept an item only base holds.
C10_Witness ==
    /\ Len(mhist) = 1
    /\ mhist[1] # None
    /\ LET ov == mhist[1][1].items
       IN  /\ \E k \in (Keys(ov) \cap Keys(mbase.items)) \ {""} :
                 LastOf(ItemsWithKey(ov, k)) # LastOf(ItemsWithKey(mbase.items, k))
           /\ \E k \in Keys(ov) \ {""} : k \notin Keys(mbase.items)
           /\ \E k \in Keys(mbase.items) : k \notin Keys(ov)

\* C11: the result of every merge call, whatever the base and the overlay, has
\* no two items with the same canonical_key.
C11_MergeResultKeysUnique ==
    (Len(mhist) >= 1) =>
        \A i, j \in 1..Len(mcur.items) :
            mcur.items[i].canonical_key = mcur.items[j].canonical_key => i = j

----------------------------------------------------------------------------
(* Properties of resolve_mapping *)

\* the override dictionaries registered for a company, under every standard
RegisteredForCompany(company_name) ==
    UNION { { CompanyOverrides[i][2][j][2] : j \in 1..Len(CompanyOverrides[i][2]) } :
            i \in {n \in 1..Len(CompanyOverrides) :
                     CompanyOverrides[n][1] = AsKey(NormalizeCompany(company_name))} }

\* the override dictionaries registered for a company under one standard key
RegisteredForCompanyUnder(company_name, std_key) ==
    UNION { { CompanyOverrides[i][2][j][2] :
                j \in {m \in 1..Len(CompanyOverrides[i][2]) :
                         CompanyOverrides[i][2][m][1] = std_key} } :
            i \in {n \in 1..Len(CompanyOverrides) :
                     CompanyOverrides[n][1] = AsKey(NormalizeCompany(company_name))} }

\* the override dictionaries registered for a standard label
RegisteredForStandard(standard) ==
    { StandardOverrides[i][2] :
        i \in {n \in 1..Len(StandardOverrides) :
                 <<StandardOverrides[n][1]>> = NormalizeStandard(standard)} }

StandardKeyOf(standard) ==
    IF NormalizeStandard(standard) = <<>> THEN "DEFAULT" ELSE AsKey(NormalizeStandard(standard))

\* the items a set of dictionaries lists under key k
ItemsUnder(dicts, k) == UNION { ItemSet(ItemsWithKey(d.items, k)) : d \in dicts }

\* The item expected for k: the company layer's if it defines k, else the
\* standard layer's if it defines k, else the base item
ExpectedItems(companyDicts, standardDicts, k) ==
    IF ItemsUnder(companyDicts, k) # {} THEN ItemsUnder(companyDicts, k)
    ELSE IF ItemsUnder(standardDicts, k) # {} THEN ItemsUnder(standardDicts, k)
    ELSE ItemsUnder({DefaultMapping}, k)

ResolveKeys ==
    Keys(DefaultMapping.items) \cup
    UNION { Keys(StandardOverrides[i][2].items) : i \in 1..Len(StandardOverrides) }

\* C12 as stated: for every (standard, company_name) and canonical key,
\* resolve_mapping returns the item of the override registered for the
\* company if it defines the key, whatever the standard; otherwise the
\* standard override's item; otherwise the base item.
C12_LayeredPrecedenceAnyStandard ==
    (pc = "returned" /\ call.op = "resolve_mapping") =>
        \A k \in ResolveKeys :
            ItemSet(ItemsWithKey(mcur.items, k)) =
                ExpectedItems(RegisteredForCompany(call.company_name),
                              RegisteredForStandard(call.standard), k)

\* C12 (amended): for every (standard, company_name) and canonical key,
\* resolve_mapping returns exactly one item: the item of the override
\* registered for the company under the normalized standard if it defines the
\* key, otherwise the item of the standard override if it defines the key,
\* otherwise the base item.
C12_LayeredPrecedence ==
    (pc = "returned" /\ call.op = "resolve_mapping") =>
        \A k \in ResolveKeys :
            /\ Len(ItemsWithKey(mcur.items, k)) = 1
            /\ ItemSet(ItemsWithKey(mcur.items, k)) =
                   ExpectedItems(RegisteredForCompanyUnder(call.company_name,
                                                           StandardKeyOf(call.standard)),
                                 RegisteredForStandard(call.standard), k)

\* A resolution in which all three layers decide a key: the company override
\* replaced the standard override's item for one key, the standard override
\* replaced the base item for a key the company leaves alone, and a base item
\* no override defines is returned.
C12_Witness ==
    /\ pc = "returned"
    /\ call.op = "resolve_mapping"
    /\ LET co == RegisteredForCompanyUnder(call.company_name, StandardKeyOf(call.standard))
           st == RegisteredForStandard(call.standard)
       IN  /\ \E k \in ResolveKeys :
                 /\ ItemsUnder(co, k) # {}
                 /\ ItemsUnder(st, k) # {}
                 /\ ItemsUnder(co, k) # ItemsUnder(st, k)
                 /\ ItemSet(ItemsWithKey(mcur.items, k)) = ItemsUnder(co, k)
           /\ \E k \in ResolveKeys :
                 /\ ItemsUnder(co, k) = {}
                 /\ ItemsUnder(st, k) # {}
                 /\ ItemSet(ItemsWithKey(mcur.items, k)) = ItemsUnder(st, k)
           /\ \E k \in ResolveKeys :
                 /\ ItemsUnder(co, k) = {}
                 /\ ItemsUnder(st, k) = {}
                 /\ ItemSet(ItemsWithKey(mcur.items, k)) = ItemsUnder({DefaultMapping}, k)

----------------------------------------------------------------------------
(* Properties of the balance-sheet reconciler *)

Reconciled == pc = "returned" /\ call.op = "_reconcile_balance_sheet"

\* the cell of key's row in period column col, None when the row is absent
CellOf(df, key, col) ==
    IF RowsOf(df, key) = <<>> THEN None ELSE RowsOf(df, key)[1].cells[col]

\* C13 as stated: in every period column where TotalAssets, TotalEquity and
\* TotalLiabilities are all numeric, TotalLiabilities becomes Assets - Equity
\* when |Assets - (Liabilities + Equity)| / |Assets| exceeds 3%, and keeps
\* its value when the ratio does not exceed 3%.  The ratio is compared as
\* floating-point division compares it: over zero assets a positive gap is
\* infinite and exceeds every tolerance, a zero gap does not.
C13_OverwriteBeyondToleranceAnyAssets ==
    Reconciled =>
        \A col \in 1..call.df_wide.cols :
            LET ta == CellOf(call.df_wide, "TotalAssets", col)
                te == CellOf(call.df_wide, "TotalEquity", col)
                tl == CellOf(call.df_wide, "TotalLiabilities", col)
            IN  (ta # None /\ te # None /\ tl # None) =>
                    IF Abs(ta[1] - (tl[1] + te[1])) * 100 > 3 * Abs(ta[1])
                    THEN CellOf(out, "TotalLiabilities", col) = <<ta[1] - te[1]>>
                    ELSE CellOf(out, "TotalLiabilities", col) = tl

\* C13 (amended): in every period column where TotalAssets, TotalEquity and
\* TotalLiabilities are all numeric, TotalLiabilities becomes Assets - Equity
\* when Assets is not zero and |Assets - (Liabilities + Equity)| / |Assets|
\* exceeds 3%, and keeps its value when Assets is zero or the ratio does not
\* exceed 3%.
C13_OverwriteBeyondTolerance ==
    Reconciled =>
        \A col \in 1..call.df_wide.cols :
            LET ta == CellOf(call.df_wide, "TotalAssets", col)
                te == CellOf(call.df_wide, "TotalEquity", col)
                tl == CellOf(call.df_wide, "TotalLiabilities", col)
            IN  (ta # None /\ te # None /\ tl # None) =>
                    IF ta[1] # 0 /\ Abs(ta[1] - (tl[1] + te[1])) * 100 > 3 * Abs(ta[1])
                    THEN CellOf(out, "TotalLiabilities", col) = <<ta[1] - te[1]>>
                    ELSE CellOf(out, "TotalLiabilities", col) = tl

\* One table in which a 5% gap was overwritten (55 became 60) and another
\* column's gap of exactly 3% was kept (57 stayed 57).
C13_Witness ==
    /\ Reconciled
    /\ \E c1, c2 \in 1..call.df_wide.cols :
          /\ CellOf(call.df_wide, "TotalAssets", c1) = <<100>>
          /\ CellOf(call.df_wide, "TotalEquity", c1) = <<40>>
          /\ CellOf(call.df_wide, "TotalLiabilities", c1) = <<55>>
          /\ CellOf(out, "TotalLiabilities", c1) = <<60>>
          /\ CellOf(call.df_wide, "TotalAssets", c2) = <<100>>
          /\ CellOf(call.df_wide, "TotalEquity", c2) = <<40>>
          /\ CellOf(call.df_wide, "TotalLiabilities", c2) = <<57>>
          /\ CellOf(out, "TotalLiabilities", c2) = <<57>>

\* C14: in every period column, TotalLiabilities becomes Assets - Equity when
\* TotalAssets and TotalEquity are numeric and TotalLiabilities is missing;
\* when TotalAssets or TotalEquity is missing, every cell of the column is
\* what it was.
C14_DeriveMissingOrLeaveUntouched ==
    Reconciled =>
        \A col \in 1..call.df_wide.cols :
            LET ta == CellOf(call.df_wide, "TotalAssets", col)
                te == CellOf(call.df_wide, "TotalEquity", col)
                tl == CellOf(call.df_wide, "TotalLiabilities", col)
                keys == Keys(call.df_wide.rows) \cup Keys(out.rows)
            IN  /\ (ta # None /\ te # None /\ tl = None) =>
                        CellOf(out, "TotalLiabilities", col) = <<ta[1] - te[1]>>
                /\ (ta = None \/ te = None) =>
                        \A k \in keys : CellOf(out, k, col) = CellOf(call.df_wide, k, col)

\* One table in which a missing TotalLiabilities was derived in one column
\* while another column, lacking TotalEquity, kept its reported 55.
C14_Witness ==
    /\ Reconciled
    /\ \E c1, c2 \in 1..call.df_wide.cols :
          /\ CellOf(call.df_wide, "TotalAssets", c1) = <<100>>
          /\ CellOf(call.df_wide, "TotalEquity", c1) = <<40>>
          /\ CellOf(call.df_wide, "TotalLiabilities", c1) = None
          /\ CellOf(out, "TotalLiabilities", c1) = <<60>>
          /\ CellOf(call.df_wide, "TotalAssets", c2) = <<100>>
          /\ CellOf(call.df_wide, "TotalEquity", c2) = None
          /\ CellOf(call.df_wide, "TotalLiabilities", c2) = <<55>>
          /\ CellOf(out, "TotalLiabilities", c2) = <<55>>

\* C15 as stated: whenever the wide table is non-empty and has no
\* TotalLiabilities row, the output has one.
C15_LiabilitiesRowCreatedAlways ==
    (Reconciled /\ call.df_wide.rows # <<>> /\ RowsOf(call.df_wide, "TotalLiabilities") = <<>>) =>
        Len(RowsOf(out, "TotalLiabilities")) = 1

\* C15 (amended): whenever the wide table has a TotalAssets row and a
\* TotalEquity row and no TotalLiabilities row, the output has exactly one
\* TotalLiabilities row, appended after the rows of the input, holding
\* Assets - Equity in the columns where both are numeric and null elsewhere;
\* without a TotalAssets row or a TotalEquity row the table is returned as it
\* is.
C15_LiabilitiesRowCreated ==
    (Reconciled /\ call.df_wide.rows # <<>> /\ RowsOf(call.df_wide, "TotalLiabilities") = <<>>) =>
        IF RowsOf(call.df_wide, "TotalAssets") # <<>> /\ RowsOf(call.df_wide, "TotalEquity") # <<>>
        THEN /\ Len(out.rows) = Len(call.df_wide.rows) + 1
             /\ SubSeq(out.rows, 1, Len(call.df_wide.rows)) = call.df_wide.rows
             /\ LastOf(out.rows).canonical_key = "TotalLiabilities"
             /\ LastOf(out.rows).statement = "BS"
             /\ \A col \in 1..call.df_wide.cols :
                    LET ta == CellOf(call.df_wide, "TotalAssets", col)
                        te == CellOf(call.df_wide, "TotalEquity", col)
                    IN  LastOf(out.rows).cells[col] =
                            IF ta # None /\ te # None THEN <<ta[1] - te[1]>> ELSE None
        ELSE out = call.df_wide

\* A table without a TotalLiabilities row got one that is filled in one
\* column and null in another.
C15_Witness ==
    /\ Reconciled
    /\ RowsOf(call.df_wide, "TotalLiabilities") = <<>>
    /\ Len(RowsOf(out, "TotalLiabilities")) = 1
    /\ \E c1, c2 \in 1..call.df_wide.cols :
          /\ CellOf(out, "TotalLiabilities", c1) = <<60>>
          /\ CellOf(out, "TotalLiabilities", c2) = None

----------------------------------------------------------------------------
(* Properties of the portfolio extraction *)

Timeseries == pc = "returned" /\ call.op = "get_portfolio_timeseries"

\* the rule with aggregate_mode "sum"
SumRule == PortfolioRules[1]

\* The positively scored facts of the sum rule for period end e in the last
\* call
SumMatches(e) ==
    SelectSeq(ConsolidatedFilter(FilterFacts(facts, SumRule.period_type, call.period_filter, TRUE),
                                 call.consolidated),
              LAMBDA f : /\ f.period_end = e
                         /\ PortfolioScore(f, SumRule) > 0
                         /\ ~ReSearch(SumRule.exclude_regex,
                                      f.Element \o <<" ">> \o f.Label \o <<" ">> \o f.Tag))

RECURSIVE SumNumeric(_)
SumNumeric(fs) ==
    IF fs = <<>> THEN 0
    ELSE (IF Head(fs).numeric_value = None THEN 0 ELSE Head(fs).numeric_value[1])
         + SumNumeric(Tail(fs))

\* the sum over the consolidated matches when there are any, else over all
ExpectedSum(e) ==
    LET cons == SelectSeq(SumMatches(e), LAMBDA f : f.Consolidated = "True")
    IN  SumNumeric(IF cons # <<>> THEN cons ELSE SumMatches(e))

SumRowsOf(e) ==
    SelectSeq(out, LAMBDA r : r.portfolio_key = SumRule.portfolio_key /\ r.period_end = e)

\* C16: for the sum rule, the value reported for a period is the sum of the
\* numeric values of the period's positively scored facts, over the
\* consolidated ones when the period has any; a period is never reported
\* twice, and a period with a positive sum is reported.
C16_SumOfPeriodGroup ==
    Positions =>
        \A e \in AllPeriodEnds :
            /\ Len(SumRowsOf(e)) <= 1
            /\ \A i \in 1..Len(SumRowsOf(e)) : SumRowsOf(e)[i].value = <<ExpectedSum(e)>>
            /\ (SumMatches(e) # <<>> /\ ExpectedSum(e) > 0) => Len(SumRowsOf(e)) = 1

\* Two consolidated matches of one period, 30 and 70, were reported as one
\* row of 100.
C16_Witness ==
    /\ Positions
    /\ \E e \in AllPeriodEnds :
          /\ Len(SumMatches(e)) = 2
          /\ SumMatches(e)[1].numeric_value = <<30>>
          /\ SumMatches(e)[2].numeric_value = <<70>>
          /\ Len(SumRowsOf(e)) = 1
          /\ SumRowsOf(e)[1].value = <<100>>

\* C17: for the sum rule no period with a sum of zero or less is reported:
\* get_portfolio_positions has no row for it and get_portfolio_timeseries no
\* value.
C17_NonPositiveSumDropped ==
    /\ Positions =>
          \A i \in 1..Len(out) :
              out[i].portfolio_key = SumRule.portfolio_key => ExpectedSum(out[i].period_end) > 0
    /\ Timeseries =>
          \A i \in 1..Len(out.rows) :
              (SumRule.portfolio_key \in out.cols /\ ExpectedSum(out.rows[i].period_label) <= 0) =>
                  out.rows[i].values[SumRule.portfolio_key] = None

\* the wide table before capping and backfilling
Pivoted == PivotPortfolio(GetPortfolioPositions(facts, call.period_filter, call.consolidated))

\* C18: with a TotalSecurities and an EquitySecurities series, the equity of
\* every period is at most the period's total; an equity value at or below
\* the total, and a missing equity value, stay what they were.
C18_EquityCappedAtTotal ==
    (Timeseries /\ {"TotalSecurities", "EquitySecurities"} \subseteq Pivoted.cols) =>
        \A i \in 1..Len(out.rows) :
            LET total == Pivoted.rows[i].values["TotalSecurities"]
                before == Pivoted.rows[i].values["EquitySecurities"]
                after == out.rows[i].values["EquitySecurities"]
            IN  /\ (after # None /\ total # None) => after[1] <= total[1]
                /\ (before = None \/ total = None \/ before[1] <= total[1]) => after = before

\* C19: with a TotalSecurities series, a period without a DebtSecurities
\* value gets max(Total - capped Equity, 0) when there is an EquitySecurities
\* series and Total when there is none; a DebtSecurities value taken from the
\* facts stays.
C19_DebtBackfilled ==
    (Timeseries /\ "TotalSecurities" \in Pivoted.cols) =>
        \A i \in 1..Len(out.rows) :
            LET total == Pivoted.rows[i].values["TotalSecurities"]
                debt == Col(Pivoted, Pivoted.rows[i], "DebtSecurities")
                capped == Col(out, out.rows[i], "EquitySecurities")
                after == out.rows[i].values["DebtSecurities"]
            IN  IF debt # None THEN after = debt
                ELSE IF "EquitySecurities" \notin Pivoted.cols THEN after = total
                ELSE (total # None /\ capped # None) =>
                        after = <<IF total[1] - capped[1] > 0 THEN total[1] - capped[1] ELSE 0>>

----------------------------------------------------------------------------
(* Properties of mapping load *)

\* C20: a mapping holding an item whose statement is none of PL, BS, CF,
\* PORTFOLIO, OTHER makes the construction of the analyzer fail: no rule is
\* built from it, no resolution call follows, and an analyzer that was built
\* holds one rule per item of some mapping whose statements are all known.
C20_UnknownStatementFailsAtLoad ==
    /\ [](pc = "failed" => (rules = <<>> /\ out = <<>> /\ call = NoCall))
    /\ [][pc = "failed" => pc' = "failed"]_vars
    /\ [][(pc = "load" /\ pc' = "failed") =>
            \E m \in AnalyzerMappings :
                \E i \in 1..Len(m.items) : m.items[i].statement \notin StatementTypes]_vars
    /\ [][(pc = "load" /\ pc' = "ready") =>
            \E m \in AnalyzerMappings :
                /\ \A i \in 1..Len(m.items) : m.items[i].statement \in StatementTypes
                /\ Len(rules') = Len(m.items)
                /\ \A i \in 1..Len(m.items) :
                      /\ rules'[i].canonical_key = m.items[i].canonical_key
                      /\ rules'[i].statement = m.items[i].statement]_vars

\* The construction was attempted on a fact table with the mapping that holds
\* the statement "IS", and raised.
C20_Witness ==
    /\ pc = "failed"
    /\ rawFacts # <<>>
    /\ rules = <<>>
    /\ \E m \in AnalyzerMappings :
          \E i \in 1..Len(m.items) : m.items[i].statement \notin StatementTypes

----------------------------------------------------------------------------
(* Properties of the analyzer over an empty fact table *)

LongFormColumns ==
    { "canonical_key", "statement", "period_end", "period_start", "period_type",
      "value", "currency", "consolidated", "standard", "tag", "element", "label",
      "context_id", "match_score" }

\* C21: when the fact table is empty, resolve_canonical_long returns a table
\* of zero rows that carries the fourteen long-form columns.
C21_EmptyTableKeepsColumns ==
    (Resolved /\ rawFacts = <<>>) =>
        /\ out = <<>>
        /\ DataFrameColumns(out) = LongFormColumns

----------------------------------------------------------------------------
(* Properties of the per-period selection among competing candidates *)

\* candidate c ranks strictly above candidate s under (match_score,
\* has_currency, absolute numeric value) for rule R
RanksAbove(c, s, R) ==
    \/ RuleScore(c, R) > RuleScore(s, R)
    \/ /\ RuleScore(c, R) = RuleScore(s, R)
       /\ c.has_currency /\ ~s.has_currency
    \/ /\ RuleScore(c, R) = RuleScore(s, R)
       /\ c.has_currency = s.has_currency
       /\ c.abs_numeric # None /\ s.abs_numeric # None
       /\ c.abs_numeric[1] > s.abs_numeric[1]

\* C22: among the positively scored candidates of one rule with the same
\* period end and the same consolidation flag, no candidate ranks above the
\* selected fact under (match_score, has_currency, absolute numeric value).
C22_WinnerIsLexicographicMaximum ==
    Resolved =>
        \A r \in 1..Len(out) : \A k \in 1..Len(TargetRules) :
            \A i \in 1..Len(Pool(TargetRules[k])) :
                RowFrom(out[r], TargetRules[k], Pool(TargetRules[k])[i]) =>
                    \A j \in Candidates(TargetRules[k], out[r].period_end) :
                        Pool(TargetRules[k])[j].Consolidated = Pool(TargetRules[k])[i].Consolidated
                            => ~RanksAbove(Pool(TargetRules[k])[j], Pool(TargetRules[k])[i],
                                           TargetRules[k])

\* The selected fact has a currency and won over a candidate of the same
\* period, flag and score that has none and a larger magnitude.
C22_Witness ==
    /\ Resolved
    /\ \E r \in 1..Len(out) : \E k \in 1..Len(TargetRules) :
          \E i \in 1..Len(Pool(TargetRules[k])) :
             /\ RowFrom(out[r], TargetRules[k], Pool(TargetRules[k])[i])
             /\ Pool(TargetRules[k])[i].has_currency
             /\ out[r].currency # None
             /\ \E j \in Candidates(TargetRules[k], out[r].period_end) :
                   /\ Pool(TargetRules[k])[j].Consolidated = Pool(TargetRules[k])[i].Consolidated
                   /\ RuleScore(Pool(TargetRules[k])[j], TargetRules[k]) = out[r].match_score
                   /\ ~Pool(TargetRules[k])[j].has_currency
                   /\ Pool(TargetRules[k])[j].abs_numeric[1] > Pool(TargetRules[k])[i].abs_numeric[1]

\* the facts the last call lets rule R see, whatever their period type
Eligible(R) ==
    ConsolidatedFilter(SelectSeq(facts, LAMBDA f : f.dimension_allowed), call.consolidated)

SpanDays(row) ==
    IF row.period_start = None \/ row.period_end = None THEN None
    ELSE <<ToDatetime(row.period_end)[1] - ToDatetime(row.period_start)[1]>>

Instants(df) == SelectSeq(df, LAMBDA r : r.period_type = "instant")

WithoutThreshold(pf) == PeriodFilter(pf.prefer_duration, 0)

\* C24: with min_duration_days N > 0, no duration-typed row of the result
\* spans fewer than N days, and the instant facts a rule can select from are
\* the ones it could select from without the threshold.
C24_ThresholdOnDurationsOnly ==
    (Resolved /\ call.period_filter.min_duration_days > 0) =>
        /\ \A r \in 1..Len(out) :
              (out[r].period_type = "duration" /\ SpanDays(out[r]) # None)
                  => SpanDays(out[r])[1] >= call.period_filter.min_duration_days
        /\ \A k \in 1..Len(TargetRules) :
              Instants(FilterFacts(facts, TargetRules[k].period_type, call.period_filter, FALSE))
                = Instants(FilterFacts(facts, TargetRules[k].period_type,
                                       WithoutThreshold(call.period_filter), FALSE))

\* A call with the 300-day threshold returned an instant fact (zero days)
\* while the threshold removed a quarterly duration fact from the table.
C24_Witness ==
    /\ Resolved
    /\ call.period_filter.min_duration_days = DefaultMinDurationDays
    /\ \E r \in 1..Len(out) : out[r].period_type = "instant" /\ SpanDays(out[r]) = <<0>>
    /\ \E i \in 1..Len(facts) :
          /\ facts[i].period_type = "duration"
          /\ facts[i].duration_days = <<90>>
          /\ \E k \in 1..Len(TargetRules) :
                LET kept == FilterFacts(facts, TargetRules[k].period_type, call.period_filter, FALSE)
                    all == FilterFacts(facts, TargetRules[k].period_type,
                                       WithoutThreshold(call.period_filter), FALSE)
                IN  /\ \E j \in 1..Len(all) : all[j].ContextID = facts[i].ContextID
                    /\ \A j \in 1..Len(kept) : kept[j].ContextID # facts[i].ContextID

----------------------------------------------------------------------------
(* Claims about the match score *)

RowScored == pc = "returned" /\ call.op = "_match_rule.score"

\* a matcher that can match: a known field and an exact value or a pattern
Live(cand) ==
    /\ cand.field \in {"element", "tag", "label"}
    /\ cand.exact # None \/ cand.regex # None

\* the value of the fact a live matcher looks at
FieldValue(row, cand) ==
    CASE cand.field = "element" -> row.Element
      [] cand.field = "tag" -> row.Tag
      [] cand.field = "label" -> row.Label

\* the positions of the matchers of cands that match the fact
MatchingPositions(row, cands) ==
    {i \in 1..Len(cands) :
        /\ Live(cands[i])
        /\ \/ cands[i].exact # None /\ Lower(FieldValue(row, cands[i])) = Lower(cands[i].exact)
           \/ cands[i].regex # None /\ ReSearch(cands[i].regex, FieldValue(row, cands[i]))}

RECURSIVE WeightOver(_, _)
\* the weights of the matchers at the positions S, each counted once
WeightOver(cands, S) ==
    IF S = {} THEN 0
    ELSE LET i == CHOOSE x \in S : TRUE
         IN  cands[i].weight + WeightOver(cands, S \ {i})

MatchingWeight(row, cands) == WeightOver(cands, MatchingPositions(row, cands))

\* the rule with the candidate list in the order p
Permuted(R, p) == [R EXCEPT !.candidates = PermuteSeq(R.candidates, p)]

\* the rule without the matchers that cannot match
WithoutInert(R) == [R EXCEPT !.candidates = SelectSeq(R.candidates, Live)]

\* C25 as stated: the score of a (fact, rule) pair is the sum of the weights
\* of the matchers of the rule that match the fact, each counted once; it is
\* the same for every permutation of the candidate list, and a matcher with
\* an unknown field or with neither exact nor regex contributes nothing.
C25_ScoreIsSumOfMatchingWeights ==
    RowScored =>
        LET row == facts[call.row]
            R == rules[call.rule]
        IN  /\ out = MatchingWeight(row, R.candidates)
            /\ \A p \in Permutations(1..Len(R.candidates)) :
                  RuleScore(row, Permuted(R, p)) = out
            /\ RuleScore(row, WithoutInert(R)) = out

\* the TotalEquity rule scores a fact naming LiabilitiesAndNetAssets zero
ExcludedFromTotalEquity(row, R) ==
    /\ R.canonical_key = "TotalEquity"
    /\ \/ Contains(LiabilitiesAndNetAssets, row.Element)
       \/ Contains(LiabilitiesAndNetAssets, row.Label)

\* C25 amended: the score is zero for a fact the TotalEquity rule excludes,
\* and otherwise the sum of the weights of the matching matchers, each
\* counted once; in both cases it is the same for every permutation of the
\* candidate list and unchanged by removing the matchers that cannot match.
C25_ScoreIsSumUnlessExcluded ==
    RowScored =>
        LET row == facts[call.row]
            R == rules[call.rule]
        IN  /\ out = IF ExcludedFromTotalEquity(row, R) THEN 0
                     ELSE MatchingWeight(row, R.candidates)
            /\ \A p \in Permutations(1..Len(R.candidates)) :
                  RuleScore(row, Permuted(R, p)) = out
            /\ RuleScore(row, WithoutInert(R)) = out

\* A fact matched by two matchers of a rule whose candidate list is not in
\* the order of the mapping was scored with the sum of the two weights.
C25_Witness ==
    /\ RowScored
    /\ rules[call.rule].canonical_key = "Revenue"
    /\ rules[call.rule].candidates[1].weight # 40
    /\ Cardinality(MatchingPositions(facts[call.row], rules[call.rule].candidates)) = 2
    /\ out = 65

\* The TotalEquity rule scored zero a fact that two of its matchers match.
C25_ExcludedFactScoresZero ==
    /\ RowScored
    /\ ExcludedFromTotalEquity(facts[call.row], rules[call.rule])
    /\ MatchingWeight(facts[call.row], rules[call.rule].candidates) > 0
    /\ out = 0

\* A matcher with an unknown field and one with neither exact nor regex
\* stood in the candidate list of a rule that scored the fact above zero.
C25_InertWitness ==
    /\ RowScored
    /\ \E i \in 1..Len(rules[call.rule].candidates) : ~Live(rules[call.rule].candidates[i])
    /\ out > 0

----------------------------------------------------------------------------
(* Claims about the independence of the rules *)

\* what rule R alone returns for the last call from the normalized raw table
AloneRows(R) ==
    ResolveCanonicalLong(NormalizeFacts(rawFacts), <<R>>, call.statement,
                         call.period_filter, call.consolidated)

\* C26: a resolution call leaves the normalized fact table and the rules as
\* they were built, and the rows a resolve_canonical_long call returns are,
\* rule by rule, the rows each rule returns alone from the table as the
\* constructor normalized it, whatever calls ran before.
C26_SelectionNonDestructive ==
    /\ [][(pc' = "returned") => (facts' = facts /\ rules' = rules /\ rawFacts' = rawFacts)]_vars
    /\ []((Resolved \/ Positions) => facts = NormalizeFacts(rawFacts))
    /\ [](Resolved =>
            out = Concat([k \in 1..Len(TargetRules) |-> AloneRows(TargetRules[k])]))

\* One fact was returned for two rules of the same call.
C26_Witness ==
    /\ Resolved
    /\ \E a, b \in 1..Len(out) :
          /\ out[a].canonical_key = "TotalEquity"
          /\ out[b].canonical_key = "NetAssets"
          /\ out[a].context_id = out[b].context_id
          /\ out[a].period_end = out[b].period_end

----------------------------------------------------------------------------
(* Claims about the dimension whitelist *)

\* every axis key of the raw fact ends with a whitelisted suffix (no axis: yes)
Whitelisted(raw) ==
    \A k \in 1..Len(raw.dimensions) :
        \E sfx \in AllowedDimensionSuffixes : EndsWith(raw.dimensions[k], sfx)

\* the raw table with every fact reported without dimensions
Undimensioned(raws) == [i \in 1..Len(raws) |-> Dimensioned(raws[i], <<>>)]

\* C27: resolve_canonical_long returns what it returns from the table without
\* the facts that carry a non-whitelisted axis, the remaining facts counting
\* as if they had no dimensions, so no fact with a non-whitelisted axis is in
\* its result; get_portfolio_positions returns what it returns when every
\* fact of the table is taken as undimensioned.
C27_DimensionWhitelist ==
    /\ Resolved =>
          /\ out = ResolveCanonicalLong(
                      NormalizeFacts(Undimensioned(SelectSeq(rawFacts, Whitelisted))),
                      rules, call.statement, call.period_filter, call.consolidated)
          /\ \A r \in 1..Len(out) : \A i \in 1..Len(rawFacts) :
                rawFacts[i].ContextID = out[r].context_id => Whitelisted(rawFacts[i])
    /\ Positions =>
          out = GetPortfolioPositions(NormalizeFacts(Undimensioned(rawFacts)),
                                      call.period_filter, call.consolidated)

\* The table held a consolidated fact under a segment axis and a
\* non-consolidated fact under the consolidation axis only, both matching
\* Revenue for the same period; the call without a consolidated argument
\* returned the second.
C27_Witness ==
    /\ Resolved
    /\ call.consolidated = "None"
    /\ \E i \in 1..Len(rawFacts) : rawFacts[i].ContextID = "sel7"
    /\ \E r \in 1..Len(out) : out[r].canonical_key = "Revenue" /\ out[r].context_id = "sel8"

\* get_portfolio_positions returned the fact reported under a segment axis.
C27_PortfolioWitness ==
    /\ Positions
    /\ \E r \in 1..Len(out) : out[r].context_id = "sel9"

----------------------------------------------------------------------------
(* Claims about the period backfill *)

Built == pc \in {"ready", "returned"}

\* the text reads "YYYY-MM-DD - YYYY-MM-DD"
ReadsDuration(ps) ==
    /\ Len(ps) = 5
    /\ Len(ps[1]) = 3 /\ ps[2] = <<" ">> /\ ps[3] = <<"-">> /\ ps[4] = <<" ">> /\ Len(ps[5]) = 3

\* the text reads "Instant: YYYY-MM-DD"
ReadsInstant(ps) ==
    /\ Len(ps) = 3
    /\ ps[1] = <<"Instant:">> /\ ps[2] = <<" ">> /\ Len(ps[3]) = 3

\* the normalized table has the row of raw fact i with this start and end
NormalizedWith(i, start, end) ==
    \E j \in 1..Len(facts) :
        /\ facts[j].ContextID = rawFacts[i].ContextID
        /\ facts[j].Value = rawFacts[i].Value
        /\ facts[j].period_start = start
        /\ facts[j].period_end = end

\* C28: in the normalized table of a built analyzer, a fact without
\* period_start and period_end whose Period/Setting reads "start - end" has
\* that start and that end, one whose Period/Setting reads "Instant: date"
\* has that date as period_end (and, as an instant, as period_start), and a
\* fact that came with a period_end keeps it, and keeps its period_start.
C28_PeriodBackfilledFromSetting ==
    Built =>
        \A i \in 1..Len(rawFacts) :
            LET f == rawFacts[i]
                ps == f.PeriodSetting
            IN  /\ (f.period_start = None /\ f.period_end = None /\ ReadsDuration(ps))
                      => NormalizedWith(i, ps[1], ps[5])
                /\ (f.period_start = None /\ f.period_end = None /\ ReadsInstant(ps))
                      => NormalizedWith(i, IF f.period_type = "instant" THEN ps[3] ELSE None, ps[3])
                /\ (f.period_end # None)
                      => NormalizedWith(i, IF f.period_start = None /\ f.period_type = "instant"
                                           THEN f.period_end ELSE f.period_start,
                                        f.period_end)

\* The last part of C28 alone: the period columns already present are never
\* replaced.
C28_PresentPeriodKept ==
    Built =>
        \A i \in 1..Len(rawFacts) :
            (rawFacts[i].period_end # None)
                => NormalizedWith(i, IF rawFacts[i].period_start = None /\ rawFacts[i].period_type = "instant"
                                     THEN rawFacts[i].period_end ELSE rawFacts[i].period_start,
                                  rawFacts[i].period_end)

----------------------------------------------------------------------------
(* Claims about the constructor argument prefer_consolidated *)

\* C29: what resolve_canonical_long and get_portfolio_positions returned is
\* what an analyzer over the same facts and rules built with the other value
\* of prefer_consolidated returns for the same call.
C29_PreferConsolidatedHasNoEffect ==
    /\ Resolved =>
          out = ResolveCanonicalLongWith(facts, rules, call.statement, call.period_filter,
                                         call.consolidated, ~prefer)
    /\ Positions =>
          out = GetPortfolioPositionsWith(facts, call.period_filter, call.consolidated, ~prefer)

\* An analyzer built with prefer_consolidated=False, asked without a
\* consolidated argument, returned the consolidated fact of a period for
\* which a non-consolidated fact scores higher.
C29_Witness ==
    /\ Resolved
    /\ ~prefer
    /\ call.consolidated = "None"
    /\ \E r \in 1..Len(out) : \E i \in 1..Len(facts) :
          /\ out[r].consolidated = "True"
          /\ facts[i].Consolidated = "False"
          /\ facts[i].period_end = out[r].period_end
          /\ \E k \in 1..Len(TargetRules) :
                /\ TargetRules[k].canonical_key = out[r].canonical_key
                /\ RuleScore(facts[i], TargetRules[k]) > out[r].match_score

----------------------------------------------------------------------------
(* Claims about the reconciled table *)

\* the rows of the table other than TotalLiabilities, in table order
OtherRows(df) == SelectSeq(df.rows, LAMBDA r : r.canonical_key # "TotalLiabilities")

\* C30: in the table the reconciler returns, every period column where
\* TotalAssets and TotalEquity are numeric and TotalAssets is not zero has a
\* numeric TotalLiabilities with |Assets - (Liabilities + Equity)| / |Assets|
\* at most 3%; the rows other than TotalLiabilities and the period columns
\* are those of the table that was passed in, which is as it was passed.
C30_ReconciledWithinTolerance ==
    Reconciled =>
        /\ \A col \in 1..out.cols :
              LET ta == CellOf(out, "TotalAssets", col)
                  te == CellOf(out, "TotalEquity", col)
                  tl == CellOf(out, "TotalLiabilities", col)
              IN  (ta # None /\ te # None /\ ta[1] # 0) =>
                      /\ tl # None
                      /\ Abs(ta[1] - (tl[1] + te[1])) * 100 <= DefaultTolerance * Abs(ta[1])
        /\ out.cols = call.df_wide.cols
        /\ OtherRows(out) = OtherRows(call.df_wide)
        /\ out = ReconcileBalanceSheet(call.df_wide, DefaultTolerance)

\* Over negative assets a reported TotalLiabilities of 55 was replaced by
\* Assets - Equity; the cash, assets and equity rows are those of the table
\* passed in, which still holds the 55.
C30_Witness ==
    /\ Reconciled
    /\ out # call.df_wide
    /\ OtherRows(out) # <<>>
    /\ \E col \in 1..out.cols :
          /\ CellOf(out, "TotalAssets", col) = <<0 - 100>>
          /\ CellOf(out, "TotalEquity", col) = <<40>>
          /\ CellOf(call.df_wide, "TotalLiabilities", col) = <<55>>
          /\ CellOf(out, "TotalLiabilities", col) = <<0 - 140>>

====
